---- MODULE Spec2Model ----
\* A model of libgossip's membership core (src/src/core/gossip_core.cpp):
\* one gossip_core engine driven by a single caller, with the messages it is
\* handed drawn from a bounded set of arbitrary gossip_message values.
EXTENDS Integers, Sequences, FiniteSets, TLC

\* --------------------------------------------------------------------
\* Bounds of the model
\* --------------------------------------------------------------------

\* Largest clock value (one unit is 2000 ms of the steady clock).
MaxTime == 1
\* Largest heartbeat / timestamp carried by an incoming message or view.
MaxHeartbeat == 2
\* Largest config_epoch carried by an incoming view.
MaxEpoch == 1
\* The number of entry-point calls the driver makes.
MaxCalls == 3
\* Escalation runs: the clock runs to MaxDetectTime (unit 2000 ms) and the
\* driver makes at most MaxDetectCalls calls.
MaxDetectTime == 4
MaxDetectCalls == 6
\* Cluster runs: the drivers make at most MaxNetCalls calls of meet and leave.
MaxConvTicks == 1
MaxThreadCalls == 2
MaxClosedCalls == 3
MaxTalkCalls == 5
MaxNetCalls == 3

\* --------------------------------------------------------------------
\* Program constants
\* --------------------------------------------------------------------

\* failure_timeout_ = 2000 ms, in clock units of 2000 ms.
FailureTimeout == 1
\* gossip_nodes_: peers pinged per tick.
GossipNodes == 3
\* sync_nodes_: extra views carried per message.
SyncNodes == 2
\* tick: "if (node.suspicion_count > 3)".
SuspicionThreshold == 3

\* node_id_t values: the engine's own id and two other ids.
SelfId == "A"
NodeIds == {"A", "B", "C"}

\* enum class node_status
node_status == {"unknown", "joining", "online", "suspect", "failed"}
\* enum class message_type
message_type == {"ping", "pong", "meet", "join", "leave", "update"}

\* struct node_view with its default member initialisers. ip, port, role,
\* region and metadata are never read or written one by one by the core: they
\* travel with the view as a whole and are left out.
node_view(id) ==
    [id |-> id, config_epoch |-> 0, heartbeat |-> 0, version |-> 0,
     seen_time |-> 0, status |-> "unknown", suspicion_count |-> 0,
     last_suspected |-> 0]

\* --------------------------------------------------------------------
\* node_view member functions
\* --------------------------------------------------------------------

\* A comparison that holds for equal pairs as well.
newer_than_geq(a, b) ==
    IF a.heartbeat > b.heartbeat THEN TRUE
    ELSE IF a.heartbeat < b.heartbeat THEN FALSE
    ELSE a.config_epoch >= b.config_epoch

\* node_view::newer_than.
newer_than(a, b) ==
    IF a.heartbeat > b.heartbeat THEN TRUE
    ELSE IF a.heartbeat < b.heartbeat THEN FALSE
    ELSE a.config_epoch > b.config_epoch

\* A merge rule that compares the heartbeat first.
can_replace_by_heartbeat(a, b) ==
    IF a.heartbeat > b.heartbeat THEN TRUE
    ELSE IF a.heartbeat < b.heartbeat THEN FALSE
    ELSE a.config_epoch > b.config_epoch

\* A merge rule that accepts an equal pair as well.
can_replace_geq(a, b) ==
    IF a.config_epoch > b.config_epoch THEN TRUE
    ELSE IF a.config_epoch < b.config_epoch THEN FALSE
    ELSE a.heartbeat >= b.heartbeat

can_replace(a, b) ==
    IF a.config_epoch > b.config_epoch THEN TRUE
    ELSE IF a.config_epoch < b.config_epoch THEN FALSE
    ELSE a.heartbeat > b.heartbeat

\* --------------------------------------------------------------------
\* Helpers of the engine
\* --------------------------------------------------------------------

\* A lookup that starts at the second element.
find_if_from_second(nodes, id) ==
    IF \E i \in 2..Len(nodes) : nodes[i].id = id
    THEN CHOOSE i \in 2..Len(nodes) :
            /\ nodes[i].id = id
            /\ \A j \in 2..(i - 1) : nodes[j].id # id
    ELSE 0

\* std::find_if over nodes_ by id: the index of the first entry with that id,
\* 0 for nodes_.end().
find_if(nodes, id) ==
    IF \E i \in 1..Len(nodes) : nodes[i].id = id
    THEN CHOOSE i \in 1..Len(nodes) :
            /\ nodes[i].id = id
            /\ \A j \in 1..(i - 1) : nodes[j].id # id
    ELSE 0

\* One EVENT invocation: the view handed to event_fn_ and the old status.
Event(node, old_status) == [node |-> node, old_status |-> old_status]

\* A status write that changed the stored value (history of the real
\* transitions, kept beside the EVENTs the engine delivers).
Change(id, from, to) == [id |-> id, from |-> from, to |-> to]

\* A notify that ignores whether the status differs.
notify_always(event_fn, node, old_status) ==
    IF event_fn THEN <<Event(node, old_status)>> ELSE <<>>

\* gossip_core::notify: the EVENTs it delivers (none or one).
notify(event_fn, node, old_status) ==
    IF event_fn /\ node.status # old_status
    THEN <<Event(node, old_status)>>
    ELSE <<>>

\* A store that keeps unknown as it is.
coerce_never(status) == status

\* "Avoid UNKNOWN -> UNKNOWN": unknown is stored as joining.
coerce(status) == IF status = "unknown" THEN "joining" ELSE status

\* An upsert that appends without looking the id up.
update_node_append(nodes, event_fn, remote, seen_time) ==
    LET nv == [remote EXCEPT !.seen_time = seen_time,
                             !.status = coerce(remote.status)]
    IN [nodes |-> Append(nodes, nv),
        events |-> notify(event_fn, nv, "unknown"),
        changes |-> <<Change(nv.id, "unknown", nv.status)>>,
        idx |-> Len(nodes) + 1]

\* gossip_core::update_node: the table afterwards, the EVENTs delivered, the
\* status changes made and the index of the entry the returned reference names.
update_node(nodes, event_fn, remote, seen_time) ==
    LET i == find_if(nodes, remote.id) IN
    IF i = 0
    THEN LET nv == [remote EXCEPT !.seen_time = seen_time,
                                  !.status = coerce(remote.status)]
         IN [nodes |-> Append(nodes, nv),
             events |-> notify(event_fn, nv, "unknown"),
             changes |-> <<Change(nv.id, "unknown", nv.status)>>,
             idx |-> Len(nodes) + 1]
    ELSE LET old_status == nodes[i].status
             nv == IF can_replace(remote, nodes[i])
                   THEN [remote EXCEPT !.seen_time = seen_time,
                                       !.status = coerce(remote.status)]
                   ELSE nodes[i]
         IN [nodes |-> [nodes EXCEPT ![i] = nv],
             events |-> IF old_status # nv.status
                        THEN notify(event_fn, nv, old_status)
                        ELSE <<>>,
             changes |-> IF old_status # nv.status
                         THEN <<Change(nv.id, old_status, nv.status)>>
                         ELSE <<>>,
             idx |-> i]

\* The loop "for (const auto &remote: msg.entries) update_node(remote, ...)".
RECURSIVE merge_entries(_, _, _, _)
merge_entries(nodes, event_fn, entries, recv_time) ==
    IF entries = <<>>
    THEN [nodes |-> nodes, events |-> <<>>, changes |-> <<>>]
    ELSE LET u == update_node(nodes, event_fn, Head(entries), recv_time)
             r == merge_entries(u.nodes, event_fn, Tail(entries), recv_time)
         IN [nodes |-> r.nodes,
             events |-> u.events \o r.events,
             changes |-> u.changes \o r.changes]

\* The injective sequences of length n over 1..m (the prefixes a shuffle of m
\* elements can leave in front).
Arrangements(n, m) ==
    {p \in [1..n -> 1..m] : \A i, j \in 1..n : i # j => p[i] # p[j]}

Min(a, b) == IF a < b THEN a ELSE b

\* A selection that never picks anyone.
select_random_peers_none(nodes, k, exclude) == {<<>>}

\* gossip_core::select_random_peers: every result the shuffle can produce.
\* The callers always pass an id to exclude.
select_random_peers(nodes, k, exclude) ==
    LET candidates == SelectSeq(nodes, LAMBDA n : n.id # exclude)
        n == Min(k, Len(candidates))
    IN {[i \in 1..n |-> candidates[p[i]]] : p \in Arrangements(n, Len(candidates))}

\* struct gossip_message
Message(sender, type, timestamp, entries) ==
    [sender |-> sender, type |-> type, timestamp |-> timestamp,
     entries |-> entries]

\* One SEND invocation: the message and the target view.
Send(msg, target) == [msg |-> msg, target |-> target]

\* --------------------------------------------------------------------
\* gossip_core::handle_message
\* --------------------------------------------------------------------

\* A search of the entries that never finds the sender.
sender_entry_none(msg) == 0

\* The index of the first entry of msg.entries whose id is the sender's
\* (the loop "if (entry.id == msg.sender)"), 0 when there is none.
sender_entry(msg) == find_if(msg.entries, msg.sender)

\* A sender update that stores the timestamp whatever it is.
sender_heartbeat_overwrite(sender, msg) == msg.timestamp

\* "if (msg.timestamp > sender->heartbeat) sender->heartbeat = msg.timestamp".
sender_heartbeat(sender, msg) ==
    IF msg.timestamp > sender.heartbeat THEN msg.timestamp ELSE sender.heartbeat

\* "Update sender's status": the sender's view afterwards, the EVENTs delivered
\* and the status changes made. old_status is read once, before any change.
sender_update(sender, event_fn, msg, recv_time) ==
    LET old_status == sender.status
        s1 == [sender EXCEPT
                 !.heartbeat = sender_heartbeat(sender, msg),
                 !.seen_time = recv_time,
                 !.version = @ + 1,
                 !.suspicion_count = IF sender.status = "suspect" THEN 0 ELSE @]
        joined == s1.status = "joining"
        s2 == IF joined THEN [s1 EXCEPT !.status = "online"] ELSE s1
        left == msg.type = "leave" /\ s2.status # "failed"
        s3 == IF left THEN [s2 EXCEPT !.status = "failed"] ELSE s2
    IN [node |-> s3,
        events |-> (IF joined THEN notify(event_fn, s2, old_status) ELSE <<>>)
                   \o (IF left THEN notify(event_fn, s3, old_status) ELSE <<>>),
        changes |-> (IF joined THEN <<Change(s1.id, s1.status, s2.status)>> ELSE <<>>)
                    \o (IF left THEN <<Change(s2.id, s2.status, s3.status)>> ELSE <<>>)]

\* An admission that knows the meet type only.
admits_meet_only(msg) == msg.type = "meet"

\* MEET and JOIN are the messages that can introduce an unknown sender.
admits(msg) == msg.type \in {"meet", "join"}

\* A handler without the early return.
discards_never(msg, s) == FALSE

\* An early return for every message whose sender was not located.
discards_unlocated(msg, s) == s = 0

\* "Not MEET/JOIN and not recognized, discard": s is the index of the located
\* sender, 0 for a null sender.
discards(msg, s) == s = 0 /\ ~admits(msg)

\* A handler that merges the entries before it updates the sender.
handle_message_table_merge_first(core, msg, recv_time) ==
    LET ef == core.event_fn_
        i0 == find_if(core.nodes_, msg.sender)
        k == sender_entry(msg)
        u0 == IF i0 = 0 /\ admits(msg) /\ k # 0
              THEN update_node(core.nodes_, ef, msg.entries[k], recv_time)
              ELSE [nodes |-> core.nodes_, events |-> <<>>, changes |-> <<>>,
                    idx |-> i0]
        s == u0.idx
    IN IF discards(msg, s)
       THEN [nodes |-> core.nodes_, events |-> <<>>, changes |-> <<>>,
             sender |-> 0, discarded |-> TRUE]
       ELSE LET m == merge_entries(u0.nodes, ef, msg.entries, recv_time)
                su == IF s # 0
                      THEN sender_update(m.nodes[s], ef, msg, recv_time)
                      ELSE [node |-> node_view(msg.sender), events |-> <<>>,
                            changes |-> <<>>]
            IN [nodes |-> IF s # 0 THEN [m.nodes EXCEPT ![s] = su.node]
                          ELSE m.nodes,
                events |-> u0.events \o m.events \o su.events,
                changes |-> u0.changes \o m.changes \o su.changes,
                sender |-> s, discarded |-> FALSE]

\* handle_message up to (not including) the reply: the table afterwards, the
\* EVENTs, the status changes, the index of the located sender (0 for a null
\* sender) and whether the message was discarded by the early return.
handle_message_table(core, msg, recv_time) ==
    LET ef == core.event_fn_
        i0 == find_if(core.nodes_, msg.sender)
        k == sender_entry(msg)
        u0 == IF i0 = 0 /\ admits(msg) /\ k # 0
              THEN update_node(core.nodes_, ef, msg.entries[k], recv_time)
              ELSE [nodes |-> core.nodes_, events |-> <<>>, changes |-> <<>>,
                    idx |-> i0]
        s == u0.idx
    IN IF discards(msg, s)
       THEN [nodes |-> core.nodes_, events |-> <<>>, changes |-> <<>>,
             sender |-> 0, discarded |-> TRUE]
       ELSE LET su == IF s # 0
                      THEN sender_update(u0.nodes[s], ef, msg, recv_time)
                      ELSE [node |-> node_view(msg.sender), events |-> <<>>,
                            changes |-> <<>>]
                nodes1 == IF s # 0 THEN [u0.nodes EXCEPT ![s] = su.node]
                          ELSE u0.nodes
                m == merge_entries(nodes1, ef, msg.entries, recv_time)
            IN [nodes |-> m.nodes,
                events |-> u0.events \o su.events \o m.events,
                changes |-> u0.changes \o su.changes \o m.changes,
                sender |-> s, discarded |-> FALSE]

\* A reply condition that does not look at the message type.
replies_to_located(msg, r) == r.sender # 0

\* A reply to a pong as well.
replies_also_to_pong(msg, r) ==
    msg.type \in {"ping", "meet", "join", "pong"} /\ r.sender # 0

\* "Reply PONG" is reached with a located sender.
replies(msg, r) == msg.type \in {"ping", "meet", "join"} /\ r.sender # 0

\* The outcomes of select_random_peers(sync_nodes_, &msg.sender) in the reply
\* (nothing is drawn when no reply is built).
pong_extras(msg, r) ==
    IF replies(msg, r)
    THEN select_random_peers(r.nodes, SyncNodes, msg.sender)
    ELSE {<<>>}

\* A handle_message that counts a message only when it located its sender.
handle_message_reply_uncounted(core, msg, r, extras) ==
    LET pong == Message(core.self_.id, "pong", core.self_.heartbeat,
                        <<core.self_>> \o extras)
    IN [core |-> [core EXCEPT
                    !.nodes_ = r.nodes,
                    !.received_messages_ = IF r.sender # 0 THEN @ + 1 ELSE @,
                    !.sent_messages_ = IF replies(msg, r) THEN @ + 1 ELSE @],
        events |-> r.events,
        changes |-> r.changes,
        sends |-> IF replies(msg, r)
                  THEN <<Send(pong, r.nodes[r.sender])>>
                  ELSE <<>>]

\* The end of handle_message: the counters and the reply, r being the result
\* of handle_message_table and extras the outcome of the reply's random draw.
handle_message_reply(core, msg, r, extras) ==
    LET pong == Message(core.self_.id, "pong", core.self_.heartbeat,
                        <<core.self_>> \o extras)
    IN [core |-> [core EXCEPT
                    !.nodes_ = r.nodes,
                    !.received_messages_ = @ + 1,
                    !.sent_messages_ = IF replies(msg, r) THEN @ + 1 ELSE @],
        events |-> r.events,
        changes |-> r.changes,
        sends |-> IF replies(msg, r)
                  THEN <<Send(pong, r.nodes[r.sender])>>
                  ELSE <<>>]

\* handle_message(msg, recv_time): every result it can have (one for each
\* outcome of the reply's random draw).
handle_message(core, msg, recv_time) ==
    LET r == handle_message_table(core, msg, recv_time)
    IN {handle_message_reply(core, msg, r, x) : x \in pong_extras(msg, r)}

\* --------------------------------------------------------------------
\* gossip_core::tick and gossip_core::tick_full_broadcast
\* --------------------------------------------------------------------

\* A ping stamped with the heartbeat the tick is about to reach.
ping_after_increment(self, target, extras) ==
    Send(Message(self.id, "ping", self.heartbeat + 1,
                 <<[self EXCEPT !.heartbeat = @ + 1]>> \o extras), target)

\* The message field of a callback that is not a SEND.
NoCallbackMessage == Message("none", "none", 0, <<>>)

\* The ping built for one target: self_ first, then the extras drawn.
ping(self, target, extras) ==
    Send(Message(self.id, "ping", self.heartbeat, <<self>> \o extras), target)

\* Extras drawn without leaving the target out.
RECURSIVE extras_for_any(_, _)
extras_for_any(nodes, targets) ==
    IF targets = <<>> THEN {<<>>}
    ELSE {<<e>> \o rest :
            e \in select_random_peers(nodes, SyncNodes, "none"),
            rest \in extras_for_any(nodes, Tail(targets))}

\* The extras select_random_peers(sync_nodes_, &target.id) can draw for each
\* target in turn.
RECURSIVE extras_for(_, _)
extras_for(nodes, targets) ==
    IF targets = <<>> THEN {<<>>}
    ELSE {<<e>> \o rest :
            e \in select_random_peers(nodes, SyncNodes, Head(targets).id),
            rest \in extras_for(nodes, Tail(targets))}

\* The draws one tick can make: the targets chosen and, for each target in
\* turn, the extras chosen for it.
tick_draws(core) ==
    UNION {{[targets |-> t, extras |-> x] : x \in extras_for(core.nodes_, t)}
             : t \in select_random_peers(core.nodes_, GossipNodes, core.self_.id)}

\* A failure detection that declares failure when the counter reaches the
\* threshold.
detect_at_threshold(node, now) ==
    IF node.status = "online"
    THEN IF now - node.seen_time >= FailureTimeout
         THEN [node EXCEPT !.status = "suspect",
                           !.suspicion_count = @ + 1,
                           !.last_suspected = now]
         ELSE node
    ELSE IF node.status = "suspect"
    THEN IF now - node.last_suspected >= FailureTimeout
         THEN [node EXCEPT !.suspicion_count = @ + 1,
                           !.last_suspected = now,
                           !.status = IF node.suspicion_count + 1 >= SuspicionThreshold
                                      THEN "failed" ELSE @]
         ELSE node
    ELSE node

\* A failure detection that suspects a stale joining entry as well.
detect_stale_joining(node, now) ==
    IF node.status \in {"online", "joining"}
    THEN IF now - node.seen_time >= FailureTimeout
         THEN [node EXCEPT !.status = "suspect",
                           !.suspicion_count = @ + 1,
                           !.last_suspected = now]
         ELSE node
    ELSE IF node.status = "suspect"
    THEN IF now - node.last_suspected >= FailureTimeout
         THEN [node EXCEPT !.suspicion_count = @ + 1,
                           !.last_suspected = now,
                           !.status = IF node.suspicion_count + 1 > SuspicionThreshold
                                      THEN "failed" ELSE @]
         ELSE node
    ELSE node

\* "Step 3: Failure detection" for one entry of nodes_.
detect(node, now) ==
    IF node.status = "online"
    THEN IF now - node.seen_time >= FailureTimeout
         THEN [node EXCEPT !.status = "suspect",
                           !.suspicion_count = @ + 1,
                           !.last_suspected = now]
         ELSE node
    ELSE IF node.status = "suspect"
    THEN IF now - node.last_suspected >= FailureTimeout
         THEN [node EXCEPT !.suspicion_count = @ + 1,
                           !.last_suspected = now,
                           !.status = IF node.suspicion_count + 1 > SuspicionThreshold
                                      THEN "failed" ELSE @]
         ELSE node
    ELSE node

\* The EVENTs of the failure-detection pass over nodes_, in list order.
RECURSIVE detect_events(_, _, _)
detect_events(nodes, event_fn, now) ==
    IF nodes = <<>> THEN <<>>
    ELSE LET n == detect(Head(nodes), now)
         IN (IF n.status # Head(nodes).status
             THEN notify(event_fn, n, Head(nodes).status) ELSE <<>>)
            \o detect_events(Tail(nodes), event_fn, now)

\* The status changes of the failure-detection pass, in list order.
RECURSIVE detect_changes(_, _)
detect_changes(nodes, now) ==
    IF nodes = <<>> THEN <<>>
    ELSE LET n == detect(Head(nodes), now)
         IN (IF n.status # Head(nodes).status
             THEN <<Change(n.id, Head(nodes).status, n.status)>> ELSE <<>>)
            \o detect_changes(Tail(nodes), now)

\* A tick that leaves heartbeat and version alone when it has no target.
tick_idle(core, now, draw) ==
    LET self == [core.self_ EXCEPT !.seen_time = now]
        n == Len(draw.targets)
        step == IF n = 0 THEN 0 ELSE 1
    IN [core |-> [core EXCEPT
                    !.self_ = [self EXCEPT !.heartbeat = @ + step,
                                           !.version = @ + step],
                    !.nodes_ = [i \in 1..Len(core.nodes_) |-> detect(core.nodes_[i], now)],
                    !.sent_messages_ = @ + n],
        events |-> detect_events(core.nodes_, core.event_fn_, now),
        changes |-> detect_changes(core.nodes_, now),
        sends |-> [i \in 1..n |-> ping(self, draw.targets[i], draw.extras[i])]]

\* tick(), with draw the outcome of its random selections.
tick(core, now, draw) ==
    LET self == [core.self_ EXCEPT !.seen_time = now]
        n == Len(draw.targets)
    IN [core |-> [core EXCEPT
                    !.self_ = [self EXCEPT !.heartbeat = @ + 1, !.version = @ + 1],
                    !.nodes_ = [i \in 1..Len(core.nodes_) |-> detect(core.nodes_[i], now)],
                    !.sent_messages_ = @ + n],
        events |-> detect_events(core.nodes_, core.event_fn_, now),
        changes |-> detect_changes(core.nodes_, now),
        sends |-> [i \in 1..n |-> ping(self, draw.targets[i], draw.extras[i])]]

\* The callbacks one tick invokes, in the order of its statements, each with
\* the value self_.heartbeat has while it runs: the SENDs of step 1, made
\* before the increment of step 2, then the EVENTs of step 3, made after it.
tick_callbacks(core, now, draw) ==
    LET r == tick(core, now, draw)
    IN [i \in 1..Len(r.sends) |->
          [call |-> "SEND", msg |-> r.sends[i].msg,
           heartbeat |-> core.self_.heartbeat]]
       \o [i \in 1..Len(r.events) |->
             [call |-> "EVENT", msg |-> NoCallbackMessage,
              heartbeat |-> r.core.self_.heartbeat]]

\* The targets of tick_full_broadcast: the online entries, in list order.
online_nodes(nodes) == SelectSeq(nodes, LAMBDA n : n.status = "online")

\* The draws one tick_full_broadcast can make: extras for each online entry.
broadcast_draws(core) == extras_for(core.nodes_, online_nodes(core.nodes_))

\* tick_full_broadcast(), with extras the outcome of its random selections.
tick_full_broadcast(core, now, extras) ==
    LET self == [core.self_ EXCEPT !.seen_time = now]
        targets == online_nodes(core.nodes_)
        n == Len(targets)
    IN [core |-> [core EXCEPT
                    !.self_ = [self EXCEPT !.heartbeat = @ + 1, !.version = @ + 1],
                    !.sent_messages_ = @ + n],
        events |-> <<>>,
        changes |-> <<>>,
        sends |-> [i \in 1..n |-> ping(self, targets[i], extras[i])]]

\* --------------------------------------------------------------------
\* meet, join, leave, cleanup_expired, reset
\* --------------------------------------------------------------------

\* The body shared by meet and join, which differ in the message type only.
introduce(core, node, now, type) ==
    IF node.id = core.self_.id
    THEN [core |-> core, events |-> <<>>, changes |-> <<>>, sends |-> <<>>]
    ELSE LET absent == find_if(core.nodes_, node.id) = 0
             nv == [node EXCEPT !.status = "joining", !.seen_time = now]
             msg == Message(core.self_.id, type, core.self_.heartbeat,
                            <<core.self_>>)
         IN [core |-> [core EXCEPT
                         !.nodes_ = IF absent THEN Append(@, nv) ELSE @,
                         !.sent_messages_ = @ + 1],
             events |-> IF absent THEN notify(core.event_fn_, nv, "unknown")
                        ELSE <<>>,
             changes |-> IF absent THEN <<Change(nv.id, "unknown", nv.status)>>
                         ELSE <<>>,
             sends |-> <<Send(msg, node)>>]

\* A meet that records the node through update_node, with the status supplied.
meet_as_given(core, node, now) ==
    IF node.id = core.self_.id
    THEN [core |-> core, events |-> <<>>, changes |-> <<>>, sends |-> <<>>]
    ELSE LET r == update_node(core.nodes_, core.event_fn_, node, now)
             msg == Message(core.self_.id, "meet", core.self_.heartbeat,
                            <<core.self_>>)
         IN [core |-> [core EXCEPT !.nodes_ = r.nodes,
                                   !.sent_messages_ = @ + 1],
             events |-> r.events,
             changes |-> r.changes,
             sends |-> <<Send(msg, node)>>]

meet(core, node, now) == introduce(core, node, now, "meet")

join(core, node, now) == introduce(core, node, now, "join")

\* A leave that sends to every other entry, whatever its status.
leave_to_everyone(core, node_id) ==
    LET it == find_if(core.nodes_, node_id) IN
    IF it = 0
    THEN [core |-> core, events |-> <<>>, changes |-> <<>>, sends |-> <<>>]
    ELSE LET msg == Message(core.self_.id, "leave", core.self_.heartbeat,
                            <<core.nodes_[it]>>)
             targets == SelectSeq(core.nodes_, LAMBDA n : n.id # node_id)
             old_status == core.nodes_[it].status
             nv == [core.nodes_[it] EXCEPT !.status = "failed"]
         IN [core |-> [core EXCEPT
                         !.nodes_ = [@ EXCEPT ![it] = nv],
                         !.sent_messages_ = @ + Len(targets)],
             events |-> notify(core.event_fn_, nv, old_status),
             changes |-> IF old_status # "failed"
                         THEN <<Change(node_id, old_status, "failed")>>
                         ELSE <<>>,
             sends |-> [i \in 1..Len(targets) |-> Send(msg, targets[i])]]

\* A leave that erases the entry after announcing it.
leave_removing(core, node_id) ==
    LET it == find_if(core.nodes_, node_id) IN
    IF it = 0
    THEN [core |-> core, events |-> <<>>, changes |-> <<>>, sends |-> <<>>]
    ELSE LET msg == Message(core.self_.id, "leave", core.self_.heartbeat,
                            <<core.nodes_[it]>>)
             targets == SelectSeq(core.nodes_,
                                  LAMBDA n : n.status = "online" /\ n.id # node_id)
             old_status == core.nodes_[it].status
             nv == [core.nodes_[it] EXCEPT !.status = "failed"]
         IN [core |-> [core EXCEPT
                         !.nodes_ = SelectSeq(@, LAMBDA n : n.id # node_id),
                         !.sent_messages_ = @ + Len(targets)],
             events |-> notify(core.event_fn_, nv, old_status),
             changes |-> IF old_status # "failed"
                         THEN <<Change(node_id, old_status, "failed")>>
                         ELSE <<>>,
             sends |-> [i \in 1..Len(targets) |-> Send(msg, targets[i])]]

\* leave(node_id).
leave(core, node_id) ==
    LET it == find_if(core.nodes_, node_id) IN
    IF it = 0
    THEN [core |-> core, events |-> <<>>, changes |-> <<>>, sends |-> <<>>]
    ELSE LET msg == Message(core.self_.id, "leave", core.self_.heartbeat,
                            <<core.nodes_[it]>>)
             targets == SelectSeq(core.nodes_,
                                  LAMBDA n : n.status = "online" /\ n.id # node_id)
             old_status == core.nodes_[it].status
             nv == [core.nodes_[it] EXCEPT !.status = "failed"]
         IN [core |-> [core EXCEPT
                         !.nodes_ = [@ EXCEPT ![it] = nv],
                         !.sent_messages_ = @ + Len(targets)],
             events |-> notify(core.event_fn_, nv, old_status),
             changes |-> IF old_status # "failed"
                         THEN <<Change(node_id, old_status, "failed")>>
                         ELSE <<>>,
             sends |-> [i \in 1..Len(targets) |-> Send(msg, targets[i])]]

\* A cleanup that also expires an entry seen exactly timeout ago.
cleanup_expired_geq(core, timeout, now) ==
    LET expired(n) == n.status # "online" /\ now - n.seen_time >= timeout
    IN [core EXCEPT !.nodes_ = SelectSeq(@, LAMBDA n : ~expired(n))]

\* cleanup_expired(timeout), now being clock::now().
cleanup_expired(core, timeout, now) ==
    LET expired(n) == n.status # "online" /\ now - n.seen_time > timeout
    IN [core EXCEPT !.nodes_ = SelectSeq(@, LAMBDA n : ~expired(n))]

\* A reset that leaves the message counters alone.
reset_keep_counters(core, now) ==
    [core EXCEPT !.nodes_ = <<>>,
                 !.self_ = [@ EXCEPT !.heartbeat = 1, !.version = 0,
                                     !.seen_time = now]]

\* reset(), now being clock::now().
reset(core, now) ==
    [core EXCEPT !.nodes_ = <<>>,
                 !.self_ = [@ EXCEPT !.heartbeat = 1, !.version = 0,
                                     !.seen_time = now],
                 !.sent_messages_ = 0,
                 !.received_messages_ = 0]

\* size().
size(core) == Len(core.nodes_)

\* get_stats() (last_tick_duration, which the engine never records, is left
\* out).
get_stats(core) ==
    [known_nodes |-> Len(core.nodes_),
     sent_messages |-> core.sent_messages_,
     received_messages |-> core.received_messages_]

\* --------------------------------------------------------------------
\* json_serializer: the JSON text as the members it holds
\* --------------------------------------------------------------------

\* The enumerators of message_type and node_status in declaration order: the
\* integer written for an enumerator is its position, counted from 0.
MessageTypeOrder == <<"ping", "pong", "meet", "join", "leave", "update">>
NodeStatusOrder == <<"unknown", "joining", "online", "suspect", "failed">>

\* static_cast<int>(enumerator) and static_cast<enum>(int).
enum_to_int(order, e) == (CHOOSE i \in 1..Len(order) : order[i] = e) - 1
int_to_enum(order, n) == order[n + 1]

\* operator<< of an unsigned integer in std::dec: its decimal digits.
RECURSIVE dec(_)
dec(n) == IF n < 10 THEN <<n>> ELSE dec(n \div 10) \o <<n % 10>>

\* std::stoull and std::stoi in base 10, on a string of digits.
RECURSIVE stoull(_)
stoull(digits) ==
    IF digits = <<>> THEN 0
    ELSE stoull(SubSeq(digits, 1, Len(digits) - 1)) * 10 + digits[Len(digits)]

\* serialize_node: the members written for one entry. Node ids are atoms
\* here, written and parsed back as such; seen_time, suspicion_count and
\* last_suspected are not written.
serialize_node(node) ==
    [id |-> node.id,
     config_epoch |-> dec(node.config_epoch),
     heartbeat |-> dec(node.heartbeat),
     version |-> dec(node.version),
     status |-> dec(enum_to_int(NodeStatusOrder, node.status))]

\* parse_node: a default node_view with the members read assigned.
parse_node(json) ==
    [node_view(json.id) EXCEPT
        !.config_epoch = stoull(json.config_epoch),
        !.heartbeat = stoull(json.heartbeat),
        !.version = stoull(json.version),
        !.status = int_to_enum(NodeStatusOrder, stoull(json.status))]

\* json_serializer::serialize.
serialize(msg) ==
    [sender |-> msg.sender,
     type |-> dec(enum_to_int(MessageTypeOrder, msg.type)),
     timestamp |-> dec(msg.timestamp),
     entries |-> [i \in 1..Len(msg.entries) |-> serialize_node(msg.entries[i])]]

\* json_serializer::deserialize of a text serialize has written: the error
\* code (TRUE for success) and the message.
deserialize(data) ==
    [ok |-> TRUE,
     msg |-> Message(data.sender,
                     int_to_enum(MessageTypeOrder, stoull(data.type)),
                     stoull(data.timestamp),
                     [i \in 1..Len(data.entries) |-> parse_node(data.entries[i])])]

\* --------------------------------------------------------------------
\* The inputs the engine is driven with
\* --------------------------------------------------------------------

\* A view as a caller or a message supplies it: the default view with the
\* given (config_epoch, heartbeat) pair and status.
View(id, pair, status) ==
    [node_view(id) EXCEPT !.config_epoch = pair[1], !.heartbeat = pair[2],
                          !.status = status]

\* The (config_epoch, heartbeat) pairs an incoming view of B can carry: the
\* highest heartbeat in the lowest epoch, and a lower heartbeat in the highest
\* epoch.
RemotePairs == {<<0, MaxHeartbeat>>, <<MaxEpoch, 1>>}

\* The views an incoming message can carry: any of the pairs and statuses for
\* B, two views of C and one of the engine's own id.
RemoteViews ==
    {View("B", p, s) : p \in RemotePairs, s \in node_status \ {"joining"}}
    \cup {View("C", <<0, 1>>, "online"), View("C", <<0, 1>>, "failed"),
          View(SelfId, <<0, 1>>, "online")}

\* The lists of two views an incoming message can carry.
TwoViews ==
    {<<View("B", <<0, MaxHeartbeat>>, "online"), View("C", <<0, 1>>, "online")>>,
     <<View("C", <<0, 1>>, "online"), View("B", <<0, MaxHeartbeat>>, "online")>>,
     <<View("B", <<0, MaxHeartbeat>>, "failed"), View("B", <<MaxEpoch, 1>>, "online")>>}

\* msg.entries: empty, one view, or two views.
EntryLists == {<<>>} \cup {<<v>> : v \in RemoteViews} \cup TwoViews

\* The messages handle_message is called with: any message naming B as its
\* sender, and messages naming the engine's own id.
Messages ==
    {Message("B", t, ts, es) :
        t \in message_type, ts \in {0, MaxHeartbeat}, es \in EntryLists}
    \cup {Message(SelfId, t, 0, es) :
            t \in {"ping", "meet"}, es \in {<<>>, <<View(SelfId, <<0, 1>>, "online")>>}}

\* The views meet and join are called with.
IntroViews ==
    {View("B", <<0, 0>>, "unknown"), View("B", <<0, 1>>, "online"),
     [View("B", <<0, 0>>, "unknown") EXCEPT !.suspicion_count = 1],
     View("C", <<0, 0>>, "unknown"), View(SelfId, <<0, 0>>, "online")}

\* The views the comparisons are applied to: one for every
\* (config_epoch, heartbeat) pair.
OrderViews ==
    {View("B", <<e, h>>, "online") : e \in 0..MaxEpoch, h \in 0..MaxHeartbeat}

\* The views a message to encode carries: a view as a caller fills it in, a
\* view as a peer table holds it after a message of its node was received at
\* time 1, and a view as the failure detection leaves it.
CodecViews ==
    {View("B", <<0, 1>>, "online"),
     [View("B", <<MaxEpoch, MaxHeartbeat>>, "online") EXCEPT !.seen_time = 1, !.version = 1],
     [View("C", <<0, 1>>, "suspect") EXCEPT !.suspicion_count = 1,
                                            !.last_suspected = 1]}

\* The messages encoded: every type, two timestamps, and no entry, one entry
\* or two entries.
CodecMessages ==
    {Message("B", t, ts, es) :
        t \in message_type, ts \in {0, 10 + MaxHeartbeat},
        es \in {<<>>} \cup {<<v>> : v \in CodecViews}
               \cup {<<View("B", <<0, 1>>, "online"), View("C", <<0, 0>>, "unknown")>>}}

\* The timeouts cleanup_expired is called with.
Timeouts == {0, 1}

\* --------------------------------------------------------------------
\* State
\* --------------------------------------------------------------------

VARIABLES
    calls,     \* the number of entry-point calls made so far
    core,      \* the gossip_core object: self_, nodes_, event_fn_, counters
    now,       \* clock::now()
    op,        \* the entry point called last
    events,    \* the EVENT invocations of the last call, in order
    changes,   \* the status changes the last call made, in order
    sends,     \* the SEND invocations of the last call, in order
    held,      \* for each id, the (config_epoch, heartbeat) pair nodes_ held
               \* for it last (<<>> while it was never listed)
    watch,     \* escalation runs: whether B is being timed, the time it was
               \* seen or suspected last, and the ticks that came due since
    net,       \* cluster runs: one gossip_core per node, the messages handed
               \* to SEND and not delivered yet, the engine that acted last
               \* and the message it handled
    pure,      \* function runs: the arguments drawn, the function applied
               \* to them and what it returned
    threads,   \* threaded runs: the entry point the application thread is
               \* inside, and the handle_message calls the detached
               \* per-message threads are inside
    talk       \* talking-peer runs: whether a message of B, held suspect,
               \* was handled since tick last raised the suspicion_count of
               \* B, and whether that was so at every tick that raised the
               \* count of a suspect B

vars == <<calls, core, now, op, events, changes, sends, held, watch, net, pure,
          threads, talk>>

\* The entry nodes_ holds for id, when it holds one.
Listed(c, id) == find_if(c.nodes_, id) # 0
Entry(c, id) == c.nodes_[find_if(c.nodes_, id)]

\* The (config_epoch, heartbeat) pair of a view.
Pair(v) == <<v.config_epoch, v.heartbeat>>

\* The lexicographic order of can_replace on pairs: p is not above q.
PairLeq(p, q) == p[1] < q[1] \/ (p[1] = q[1] /\ p[2] <= q[2])

\* Whether the event_handler handed to the constructor is non-null.
EventHandlers == {TRUE}

\* A gossip_core as its constructor leaves it, for the node id.
Engine(id, ef) ==
    [self_ |-> [node_view(id) EXCEPT !.status = "online", !.seen_time = 0],
     nodes_ |-> <<>>,
     event_fn_ |-> ef,
     sent_messages_ |-> 0,
     received_messages_ |-> 0]

\* No message handled yet.
NoMessage == Message("none", "none", 0, <<>>)

\* A thread that is inside no entry point (seen is the engine as the thread
\* found it when it entered, of no account while it is idle).
IdleThread ==
    [engine |-> "none", name |-> "idle", target |-> "none",
     seen |-> [self_ |-> node_view("none"), nodes_ |-> <<>>, event_fn_ |-> TRUE,
               sent_messages_ |-> 0, received_messages_ |-> 0]]

\* gossip_core::gossip_core: the engine and its surroundings after
\* construction.
Constructed ==
    /\ calls = 0
    /\ now = 0
    /\ \E ef \in EventHandlers :
          /\ core = Engine(SelfId, ef)
          /\ net = [cluster |-> [e \in NodeIds |-> Engine(e, ef)],
                    wire |-> {},
                    by |-> SelfId,
                    got |-> NoMessage]
    /\ op = "construct"
    /\ events = <<>>
    /\ changes = <<>>
    /\ sends = <<>>
    /\ held = [id \in NodeIds |-> <<>>]
    /\ watch = [on |-> FALSE, mark |-> 0, due |-> 0]
    /\ threads = [main |-> IdleThread, handlers |-> {}]
    /\ talk = [heard |-> FALSE, kept |-> TRUE]

\* The arguments a, b (two views) and m (a message), with no function
\* applied to them yet.
Arguments(a, b, m) ==
    [a |-> a, b |-> b, m |-> m, applied |-> "none",
     can_ab |-> FALSE, can_ba |-> FALSE, newer_ab |-> FALSE, newer_ba |-> FALSE,
     data |-> <<>>, ok |-> FALSE, back |-> NoMessage]

Init ==
    /\ Constructed
    /\ pure = Arguments(node_view(SelfId), node_view(SelfId), NoMessage)

\* The driver makes one more call.
Calling == calls < MaxCalls /\ calls' = calls + 1

\* The effect of a call with result r (the engine, its EVENTs and its SENDs).
Returns(name, r) ==
    /\ core' = r.core
    /\ op' = name
    /\ events' = r.events
    /\ changes' = r.changes
    /\ sends' = r.sends
    /\ now' = now
    /\ held' = [id \in NodeIds |->
                  IF Listed(r.core, id) THEN Pair(Entry(r.core, id)) ELSE held[id]]
    /\ UNCHANGED <<watch, net, pure, threads, talk>>

\* A result with no EVENT and no SEND.
Silent(c) == [core |-> c, events |-> <<>>, changes |-> <<>>, sends |-> <<>>]

Tick ==
    /\ Calling
    /\ \E d \in tick_draws(core) : Returns("tick", tick(core, now, d))

TickFullBroadcast ==
    /\ Calling
    /\ \E x \in broadcast_draws(core) :
          Returns("tick_full_broadcast", tick_full_broadcast(core, now, x))

HandleMessage ==
    /\ Calling
    /\ \E msg \in Messages :
          \E r \in handle_message(core, msg, now) : Returns("handle_message", r)

Meet ==
    /\ Calling
    /\ \E node \in IntroViews : Returns("meet", meet(core, node, now))

Join ==
    /\ Calling
    /\ \E node \in IntroViews : Returns("join", join(core, node, now))

Leave ==
    /\ Calling
    /\ \E id \in NodeIds : Returns("leave", leave(core, id))

CleanupExpired ==
    /\ Calling
    /\ \E timeout \in Timeouts :
          Returns("cleanup_expired", Silent(cleanup_expired(core, timeout, now)))

Reset ==
    /\ Calling
    /\ Returns("reset", Silent(reset(core, now)))

\* The steady clock moves on between two calls.
ClockAdvance ==
    /\ now < MaxTime
    /\ now' = now + 1
    /\ UNCHANGED <<calls, core, op, events, changes, sends, held, watch, net, pure,
                   threads, talk>>

Next ==
    \/ Tick
    \/ TickFullBroadcast
    \/ HandleMessage
    \/ Meet
    \/ Join
    \/ Leave
    \/ CleanupExpired
    \/ Reset
    \/ ClockAdvance

Spec == Init /\ [][Next]_vars

\* --------------------------------------------------------------------
\* Properties
\* --------------------------------------------------------------------

\* A step that is a call of the named entry point.
Called(name) == calls' = calls + 1 /\ op' = name

\* C1. Self-exclusion: nodes_ never holds an entry whose id is the engine's
\* own id.
SelfExclusion ==
    \A i \in 1..Len(core.nodes_) : core.nodes_[i].id # core.self_.id

\* C2. Single entry per id: nodes_ never holds two entries with the same id.
SingleEntryPerId ==
    \A i, j \in 1..Len(core.nodes_) :
        i # j => core.nodes_[i].id # core.nodes_[j].id

\* A meet or join of an id that is already listed has just returned, with a
\* second id listed as well.
SingleEntryPerIdWitness ==
    /\ op \in {"meet", "join"}
    /\ Len(sends) = 1
    /\ events = <<>>
    /\ Listed(core, sends[1].target.id)
    /\ Len(core.nodes_) = 2

\* C3, as stated: over any sequence of calls, the pair an id is listed with is
\* never below the pair it was listed with last, even when the entry was
\* removed in between.
PairsNeverDecrease ==
    [][\A id \in NodeIds :
          (Listed(core', id) /\ held[id] # <<>>)
             => PairLeq(held[id], Pair(Entry(core', id)))]_vars

\* C3, amended: while an id stays listed, no call lowers its
\* (config_epoch, heartbeat) pair in the order of can_replace.
PairsNonDecreasingWhileListed ==
    [][\A id \in NodeIds :
          (Listed(core, id) /\ Listed(core', id))
             => PairLeq(Pair(Entry(core, id)), Pair(Entry(core', id)))]_vars

\* handle_message has just overwritten a listed entry with an incoming view of
\* the highest epoch (the stored copy still has the view's version).
PairsWitness ==
    /\ op = "handle_message"
    /\ \E i \in 1..Len(events) :
          /\ events[i].old_status # "unknown"
          /\ Pair(events[i].node) = <<MaxEpoch, 1>>
          /\ events[i].node.version = 0
          /\ Listed(core, events[i].node.id)

\* C4, as stated: handle_message lowers neither the heartbeat nor the
\* config_epoch of a listed id.
FieldsNeverDecrease ==
    [][Called("handle_message") =>
          \A id \in NodeIds :
             (Listed(core, id) /\ Listed(core', id))
                => /\ Entry(core', id).heartbeat >= Entry(core, id).heartbeat
                   /\ Entry(core', id).config_epoch >= Entry(core, id).config_epoch]_vars

\* C4, amended: handle_message never lowers the config_epoch of a listed id,
\* and lowers its heartbeat only together with a rise of its config_epoch.
FieldsNonDecreasingInEpoch ==
    [][Called("handle_message") =>
          \A id \in NodeIds :
             (Listed(core, id) /\ Listed(core', id))
                => /\ Entry(core', id).config_epoch >= Entry(core, id).config_epoch
                   /\ (Entry(core', id).heartbeat < Entry(core, id).heartbeat
                         => Entry(core', id).config_epoch > Entry(core, id).config_epoch)]_vars

\* A message has raised B's heartbeat to the highest value, and a further
\* message from B with a lower timestamp leaves it there.
FieldsWitness ==
    /\ op = "handle_message"
    /\ calls < MaxCalls
    /\ Listed(core, "B")
    /\ Entry(core, "B").heartbeat = MaxHeartbeat
    /\ \E msg \in Messages :
          /\ msg.sender = "B"
          /\ msg.timestamp < MaxHeartbeat
          /\ msg.entries = <<>>
          /\ \A r \in handle_message(core, msg, now) :
                Entry(r.core, "B").heartbeat = MaxHeartbeat

\* C5. Event fidelity: every EVENT(node, old) of a call reports a status
\* change the call made: node.status differs from old, and old is the status
\* the entry held immediately before that change.
EventFidelity ==
    \A i \in 1..Len(events) :
        /\ events[i].node.status # events[i].old_status
        /\ i <= Len(changes)
        /\ changes[i].id = events[i].node.id
        /\ changes[i].to = events[i].node.status
        /\ changes[i].from = events[i].old_status

\* The status nodes_ holds for id, unknown for an id that is not listed.
StatusOf(c, id) == IF Listed(c, id) THEN Entry(c, id).status ELSE "unknown"

\* C6. With an event handler, one EVENT is delivered for each status change a
\* call makes, in the order of the changes and carrying the new status; an id
\* whose status differs after tick, tick_full_broadcast, handle_message, meet,
\* join or leave has an EVENT; a call that changes no status delivers none.
EventPerTransition ==
    [][(calls' = calls + 1 /\ core'.event_fn_) =>
          /\ Len(events') = Len(changes')
          /\ \A i \in 1..Len(events') :
                /\ events'[i].node.id = changes'[i].id
                /\ events'[i].node.status = changes'[i].to
                /\ changes'[i].from # changes'[i].to
          /\ op' \notin {"cleanup_expired", "reset"} =>
                \A id \in NodeIds :
                   StatusOf(core', id) # StatusOf(core, id)
                      => \E i \in 1..Len(events') : events'[i].node.id = id]_vars

\* One handle_message has changed the status of one entry twice and delivered
\* two EVENTs for it.
EventPerTransitionWitness ==
    /\ op = "handle_message"
    /\ core.event_fn_
    /\ Len(events) = 2
    /\ events[1].node.id = events[2].node.id
    /\ events[1].node.status = "online"
    /\ events[2].node.status = "failed"

\* The peer table after handle_message(msg, now) is called once, and after it
\* is called a second time with the same message and the same recv_time.
Once(msg) == handle_message_table(core, msg, now).nodes
Twice(msg) ==
    handle_message_table([core EXCEPT !.nodes_ = Once(msg)], msg, now).nodes

\* C7, as stated: in every reachable state and for every message, the second
\* call leaves the peer table the first call produced, field for field.
Idempotent ==
    calls < MaxCalls => \A msg \in Messages : Twice(msg) = Once(msg)

\* C7, amended: the second call keeps the entries and their order, leaves
\* every entry of an id other than the sender's as the first call produced
\* it, and, when the message carries no entry with the sender's id, changes
\* nothing of the sender's entry but its version, which it increments.
IdempotentButSender ==
    calls < MaxCalls =>
       \A msg \in Messages :
          /\ Len(Twice(msg)) = Len(Once(msg))
          /\ \A i \in 1..Len(Once(msg)) :
                /\ Twice(msg)[i].id = Once(msg)[i].id
                /\ Once(msg)[i].id # msg.sender => Twice(msg)[i] = Once(msg)[i]
                /\ (Once(msg)[i].id = msg.sender /\ sender_entry(msg) = 0)
                      => Twice(msg)[i] = [Once(msg)[i] EXCEPT !.version = @ + 1]

\* A message from a listed sender whose first application inserts an entry
\* and whose second application moves only the sender's version.
IdempotentWitness ==
    /\ calls < MaxCalls
    /\ \E msg \in Messages :
          /\ Listed(core, msg.sender)
          /\ sender_entry(msg) = 0
          /\ Len(Once(msg)) > Len(core.nodes_)
          /\ Twice(msg) # Once(msg)
          /\ \A i \in 1..Len(Once(msg)) :
                Once(msg)[i].id # msg.sender => Twice(msg)[i] = Once(msg)[i]

\* C8. Merging an entry that has the id of a listed entry and an inferior or
\* equal (config_epoch, heartbeat) pair leaves the whole table as it was and
\* emits no EVENT.
InferiorMergeIsIdentity ==
    \A remote \in RemoteViews :
       (/\ Listed(core, remote.id)
        /\ PairLeq(Pair(remote), Pair(Entry(core, remote.id))))
          => LET r == update_node(core.nodes_, core.event_fn_, remote, now)
             IN  /\ r.nodes = core.nodes_
                 /\ r.events = <<>>
                 /\ r.changes = <<>>

\* A listed entry and an incoming view of the same id with an inferior pair
\* and another status, which update_node leaves out of the table.
InferiorMergeWitness ==
    \E remote \in RemoteViews :
       /\ Listed(core, remote.id)
       /\ Pair(remote) # Pair(Entry(core, remote.id))
       /\ PairLeq(Pair(remote), Pair(Entry(core, remote.id)))
       /\ coerce(remote.status) # Entry(core, remote.id).status
       /\ update_node(core.nodes_, core.event_fn_, remote, now).nodes = core.nodes_

\* What handle_message returns when it only counts the message.
Counted ==
    [core    |-> [core EXCEPT !.received_messages_ = @ + 1],
     events  |-> <<>>,
     changes |-> <<>>,
     sends   |-> <<>>]

\* C9. handle_message of a ping, pong, update or leave whose sender is not
\* listed only increments received_messages_: the table is left as it was
\* whatever the entries are, and there is no SEND and no EVENT.
ExplicitOnlyAdmission ==
    calls < MaxCalls =>
       \A msg \in Messages :
          (msg.type \in {"ping", "pong", "update", "leave"} /\ ~Listed(core, msg.sender))
             => handle_message(core, msg, now) = {Counted}

\* A table with a listed peer receives a ping from an unlisted sender that
\* carries an entry of an unlisted id, and only counts it.
ExplicitOnlyAdmissionWitness ==
    /\ calls < MaxCalls
    /\ core.nodes_ # <<>>
    /\ \E msg \in Messages :
          /\ msg.type = "ping"
          /\ ~Listed(core, msg.sender)
          /\ msg.entries # <<>>
          /\ ~Listed(core, msg.entries[1].id)
          /\ msg.entries[1].id # core.self_.id
          /\ handle_message(core, msg, now) = {Counted}

\* C10. After handle_message of a non-leave message whose sender is listed as
\* joining or suspect, the sender is listed as online; stated for the
\* messages that carry no entry with the sender's id, so that the sender
\* update of handle_message alone decides the sender's status.
OnlineOnInteraction ==
    calls < MaxCalls =>
       \A msg \in Messages :
          (/\ msg.type # "leave"
           /\ sender_entry(msg) = 0
           /\ Listed(core, msg.sender)
           /\ Entry(core, msg.sender).status \in {"joining", "suspect"})
             => \A r \in handle_message(core, msg, now) :
                   Entry(r.core, msg.sender).status = "online"

\* C12. Graceful self-leave: with B and C online in its table, the engine
\* that calls leave with its own id issues SEND(leave, B) and SEND(leave, C).
SelfLeaveSends ==
    (/\ Listed(core, "B") /\ Entry(core, "B").status = "online"
     /\ Listed(core, "C") /\ Entry(core, "C").status = "online")
       => LET r == leave(core, core.self_.id)
          IN \A id \in {"B", "C"} :
                \E i \in 1..Len(r.sends) :
                   /\ r.sends[i].msg.type = "leave"
                   /\ r.sends[i].target.id = id

\* C13. leave(id) with id the engine's own id, or an id that is not listed,
\* does nothing: no SEND, no EVENT, and the table, the self-view and the
\* counters are left as they were.
LeaveNoOp ==
    \A id \in NodeIds :
       (id = core.self_.id \/ ~Listed(core, id)) => leave(core, id) = Silent(core)

\* The EVENTs of a call that report the peer id, in order.
EventsOf(evs, id) == SelectSeq(evs, LAMBDA e : e.node.id = id)

\* C14. From the same state at the same clock value, tick_full_broadcast and
\* tick leave every peer with the same entry (status and suspicion counter
\* included) and deliver the same EVENTs for it.
BroadcastDetectsLikeTick ==
    calls < MaxCalls =>
       \A x \in broadcast_draws(core) :
          \A d \in tick_draws(core) :
             \A id \in NodeIds \ {core.self_.id} :
                Listed(core, id) =>
                   /\ Entry(tick_full_broadcast(core, now, x).core, id)
                         = Entry(tick(core, now, d).core, id)
                   /\ EventsOf(tick_full_broadcast(core, now, x).events, id)
                         = EventsOf(tick(core, now, d).events, id)

\* C15. Whenever tick moves a peer from online to suspect, the peer's
\* suspicion_count is 1 afterwards.
SuspectCountIsOne ==
    [][Called("tick") =>
          \A id \in NodeIds :
             (/\ Listed(core, id) /\ Entry(core, id).status = "online"
              /\ Listed(core', id) /\ Entry(core', id).status = "suspect")
                => Entry(core', id).suspicion_count = 1]_vars

\* C17. Pong rule: handle_message issues one SEND, of a pong with sender
\* self_.id, timestamp self_.heartbeat and self_ as its first entry, addressed
\* to the sender's entry, when the type is ping, meet or join and a sender was
\* located (in the table, or for meet and join among the entries); in every
\* other case it issues no SEND.
PongRule ==
    calls < MaxCalls =>
       \A msg \in Messages :
          \A r \in handle_message(core, msg, now) :
             IF /\ msg.type \in {"ping", "meet", "join"}
                /\ \/ Listed(core, msg.sender)
                   \/ (msg.type \in {"meet", "join"} /\ sender_entry(msg) # 0)
             THEN /\ Len(r.sends) = 1
                  /\ r.sends[1].msg.type = "pong"
                  /\ r.sends[1].msg.sender = core.self_.id
                  /\ r.sends[1].msg.timestamp = core.self_.heartbeat
                  /\ Head(r.sends[1].msg.entries) = core.self_
                  /\ r.sends[1].target = Entry(r.core, msg.sender)
                  /\ r.core.sent_messages_ = core.sent_messages_ + 1
             ELSE /\ r.sends = <<>>
                  /\ r.core.sent_messages_ = core.sent_messages_

\* handle_message has answered with one pong that carries the self-view and
\* one more entry.
PongRuleWitness ==
    /\ op = "handle_message"
    /\ Len(sends) = 1
    /\ sends[1].msg.type = "pong"
    /\ Len(sends[1].msg.entries) = 2
    /\ sends[1].target.id = "B"
    /\ Listed(core, "C")

\* C19. meet(node) with the engine's own id does nothing; otherwise it sends
\* one meet message (sender self_.id, timestamp self_.heartbeat, entries the
\* self-view alone) to node, inserts an absent id as joining whatever status
\* was supplied with EVENT(node, unknown), and leaves the table as it was
\* when the id is listed.
MeetContract ==
    \A node \in IntroViews :
       LET r == meet(core, node, now)
           nv == [node EXCEPT !.status = "joining", !.seen_time = now]
       IN IF node.id = core.self_.id
          THEN r = Silent(core)
          ELSE /\ r.sends = <<Send(Message(core.self_.id, "meet",
                                           core.self_.heartbeat, <<core.self_>>),
                                   node)>>
               /\ r.core.sent_messages_ = core.sent_messages_ + 1
               /\ r.core.self_ = core.self_
               /\ IF Listed(core, node.id)
                  THEN r.core.nodes_ = core.nodes_ /\ r.events = <<>>
                  ELSE /\ r.core.nodes_ = Append(core.nodes_, nv)
                       /\ core.event_fn_ => r.events = <<Event(nv, "unknown")>>

\* meet has inserted as joining a node its caller supplied as online, next to
\* an entry that was listed already.
MeetContractWitness ==
    /\ op = "meet"
    /\ Len(sends) = 1
    /\ sends[1].target.status = "online"
    /\ Len(core.nodes_) = 2
    /\ core.nodes_[2].id = sends[1].target.id
    /\ core.nodes_[2].status = "joining"
    /\ events = <<Event(core.nodes_[2], "unknown")>>

DetectMessages ==
    {Message("B", "meet", 1, <<View("B", <<0, 1>>, "online")>>),
     Message("B", "ping", 1, <<>>),
     Message("B", "ping", 1, <<View("C", <<0, 1>>, "unknown")>>)}

\* The effect of a call of an escalation run with result r, and what becomes
\* of the timing of B.
DetectReturns(name, r, w) ==
    /\ calls < MaxDetectCalls
    /\ calls' = calls + 1
    /\ core' = r.core
    /\ op' = name
    /\ events' = r.events
    /\ changes' = r.changes
    /\ sends' = r.sends
    /\ watch' = w
    /\ UNCHANGED <<now, held, net, pure, threads, talk>>

\* A message from B is handled. B is timed from this moment when it is left
\* online with suspicion_count 0; its seen_time is the time of the call.
DetectHandleMessage ==
    /\ calls < MaxDetectCalls
    /\ \E msg \in DetectMessages :
          \E r \in handle_message(core, msg, now) :
             DetectReturns("handle_message", r,
                [on |-> /\ Listed(r.core, "B")
                        /\ Entry(r.core, "B").status = "online"
                        /\ Entry(r.core, "B").suspicion_count = 0,
                 mark |-> now,
                 due |-> 0])

\* tick is called. The tick is due when B is timed and failure_timeout_ has
\* passed since B was seen or since the tick that was due last.
DetectTick ==
    /\ calls < MaxDetectCalls
    /\ \E d \in tick_draws(core) :
          DetectReturns("tick", tick(core, now, d),
             IF watch.on /\ now - watch.mark >= FailureTimeout
             THEN [watch EXCEPT !.mark = now, !.due = @ + 1]
             ELSE watch)

\* The steady clock moves on between two calls.
DetectClock ==
    /\ now < MaxDetectTime
    /\ now' = now + 1
    /\ UNCHANGED <<calls, core, op, events, changes, sends, held, watch, net, pure,
                   threads, talk>>

DetectNext ==
    \/ DetectHandleMessage
    \/ DetectTick
    \/ DetectClock

SpecDetect == Init /\ [][DetectNext]_vars

\* C16. Suspicion escalation schedule: for a peer timed from the moment it is
\* online with suspicion_count 0, the first due tick makes it suspect with
\* EVENT(peer, online); it is suspect with suspicion_count the number of due
\* ticks up to the third, and failed from the fourth due tick on, which
\* delivers EVENT(peer, suspect); a tick that is not due changes neither the
\* counter nor the status and delivers no EVENT.
EscalationSchedule ==
    [][watch'.on =>
          /\ Listed(core', "B")
          /\ watch'.due = 0 => Entry(core', "B").status = "online"
          /\ watch'.due \in 1..SuspicionThreshold =>
                /\ Entry(core', "B").status = "suspect"
                /\ Entry(core', "B").suspicion_count = watch'.due
          /\ watch'.due > SuspicionThreshold => Entry(core', "B").status = "failed"
          /\ (watch.on /\ op' = "tick" /\ calls' = calls + 1) =>
                /\ (watch.due = 0 /\ watch'.due = 1)
                      => events' = <<Event(Entry(core', "B"), "online")>>
                /\ (watch.due = SuspicionThreshold /\ watch'.due = SuspicionThreshold + 1)
                      => events' = <<Event(Entry(core', "B"), "suspect")>>
                /\ (watch'.due \notin {1, SuspicionThreshold + 1}) => events' = <<>>
                /\ watch'.due = watch.due =>
                      /\ events' = <<>>
                      /\ Entry(core', "B").status = Entry(core, "B").status
                      /\ Entry(core', "B").suspicion_count
                            = Entry(core, "B").suspicion_count]_vars

\* The fourth due tick has just declared B failed.
EscalationWitness ==
    /\ op = "tick"
    /\ watch.on
    /\ watch.due = SuspicionThreshold + 1
    /\ Entry(core, "B").status = "failed"
    /\ Entry(core, "B").suspicion_count = SuspicionThreshold + 1
    /\ events = <<Event(Entry(core, "B"), "suspect")>>

\* --------------------------------------------------------------------
\* Cluster runs: one engine per node, joined by the messages they SEND
\* --------------------------------------------------------------------

\* The effect of a call made on engine e with result r: the SENDs go onto the
\* wire, msg is the message the call handled (NoMessage for meet and leave).
NetReturns(e, name, msg, r, wire) ==
    /\ net' = [cluster |-> [net.cluster EXCEPT ![e] = r.core],
               wire |-> wire \cup {r.sends[i] : i \in 1..Len(r.sends)},
               by |-> e,
               got |-> msg]
    /\ op' = name
    /\ events' = r.events
    /\ changes' = r.changes
    /\ sends' = r.sends
    /\ UNCHANGED <<core, now, held, watch, pure, threads, talk>>

\* The driver of node e calls meet with a default view of another node.
NetMeet ==
    /\ calls < MaxNetCalls
    /\ calls' = calls + 1
    /\ \E e \in NodeIds :
          \E t \in NodeIds \ {e} :
             NetReturns(e, "meet", NoMessage,
                        meet(net.cluster[e], node_view(t), now), net.wire)

\* The driver of node e calls leave.
NetLeave ==
    /\ calls < MaxNetCalls
    /\ calls' = calls + 1
    /\ \E e \in NodeIds :
          \E id \in NodeIds :
             NetReturns(e, "leave", NoMessage, leave(net.cluster[e], id), net.wire)

\* The transport delivers a message to the node it was sent to, which calls
\* handle_message with it.
NetDeliver ==
    /\ calls' = calls
    /\ \E s \in net.wire :
          \E r \in handle_message(net.cluster[s.target.id], s.msg, now) :
             NetReturns(s.target.id, "handle_message", s.msg, r, net.wire \ {s})

NetNext ==
    \/ NetMeet
    \/ NetLeave
    \/ NetDeliver

SpecNet == Init /\ [][NetNext]_vars

\* C11. Receipt of a leave marks the leaver failed: when an engine handles the
\* leave message another engine sent by leave(X), knows the sender and X, and
\* does not hold X as failed, it holds X as failed afterwards and delivers an
\* EVENT for X.
LeaveMarksLeaverFailed ==
    [][(op' = "handle_message" /\ net'.got.type = "leave") =>
          LET x == net'.got.entries[1].id
              before == net.cluster[net'.by]
              after == net'.cluster[net'.by]
          IN (/\ Listed(before, net'.got.sender)
              /\ Listed(before, x)
              /\ Entry(before, x).status # "failed")
                => /\ Entry(after, x).status = "failed"
                   /\ \E i \in 1..Len(events') : events'[i].node.id = x]_vars

\* C18. Two-node meet handshake: meet on an engine with an empty table issues
\* one SEND, of a meet to the node met, and leaves that node as the only
\* peer, joining; the engine with an empty table that handles the meet has the
\* sender as its only peer, online, and issues one SEND, of a pong to the
\* sender; the engine that handles a pong of a peer it holds as joining holds
\* it as online afterwards.
MeetHandshake ==
    [][LET e == net'.by
           before == net.cluster[e]
           after == net'.cluster[e]
       IN /\ (op' = "meet" /\ before.nodes_ = <<>>) =>
                /\ Len(sends') = 1
                /\ sends'[1].msg.type = "meet"
                /\ sends'[1].msg.sender = e
                /\ Len(after.nodes_) = 1
                /\ after.nodes_[1].id = sends'[1].target.id
                /\ after.nodes_[1].status = "joining"
          /\ (op' = "handle_message" /\ net'.got.type = "meet" /\ before.nodes_ = <<>>) =>
                /\ Len(after.nodes_) = 1
                /\ after.nodes_[1].id = net'.got.sender
                /\ after.nodes_[1].status = "online"
                /\ Len(sends') = 1
                /\ sends'[1].msg.type = "pong"
                /\ sends'[1].msg.sender = e
                /\ sends'[1].target.id = net'.got.sender
          /\ (/\ op' = "handle_message" /\ net'.got.type = "pong"
              /\ Listed(before, net'.got.sender)
              /\ Entry(before, net'.got.sender).status = "joining") =>
                Entry(after, net'.got.sender).status = "online"]_vars

\* After one meet and the two deliveries it leads to, A has handled the pong
\* of B: each of the two holds the other as its only peer, online.
MeetHandshakeWitness ==
    /\ calls = 1
    /\ op = "handle_message"
    /\ net.by = "A"
    /\ net.got.type = "pong"
    /\ net.got.sender = "B"
    /\ net.wire = {}
    /\ Len(net.cluster["A"].nodes_) = 1
    /\ Entry(net.cluster["A"], "B").status = "online"
    /\ Len(net.cluster["B"].nodes_) = 1
    /\ Entry(net.cluster["B"], "A").status = "online"

\* --------------------------------------------------------------------
\* leave, cleanup_expired, reset
\* --------------------------------------------------------------------

\* C21. leave(id) of a listed id: one leave message, whose entries are the
\* leaver's view alone, is sent to each entry that is online and has another
\* id than the leaver's, in list order, and to no other; afterwards the
\* leaver's entry is failed and still listed (the list keeps its length and
\* its other entries), and one EVENT (leaver, old status) is delivered iff
\* the old status was not failed already.
LeaveContract ==
    \A id \in NodeIds :
        Listed(core, id) =>
            LET r == leave(core, id)
                it == find_if(core.nodes_, id)
                old == core.nodes_[it]
                msg == Message(core.self_.id, "leave", core.self_.heartbeat, <<old>>)
                targets == SelectSeq(core.nodes_,
                                     LAMBDA n : n.status = "online" /\ n.id # id)
            IN /\ Len(r.sends) = Len(targets)
               /\ \A i \in 1..Len(targets) :
                     r.sends[i] = Send(msg, targets[i])
               /\ Len(r.core.nodes_) = Len(core.nodes_)
               /\ \A i \in 1..Len(core.nodes_) :
                     r.core.nodes_[i] =
                        IF i = it THEN [old EXCEPT !.status = "failed"]
                        ELSE core.nodes_[i]
               /\ r.events = IF old.status # "failed"
                             THEN <<Event([old EXCEPT !.status = "failed"], old.status)>>
                             ELSE <<>>

\* leave has just returned for a listed id that was not failed: one message
\* went to the one other entry that is online, and both entries are listed.
LeaveContractWitness ==
    /\ op = "leave"
    /\ Len(sends) = 1
    /\ Len(events) = 1
    /\ Len(core.nodes_) = 2
    /\ sends[1].msg.entries[1].id # sends[1].target.id
    /\ Entry(core, sends[1].msg.entries[1].id).status = "failed"

\* C22. cleanup_expired(timeout) removes exactly the entries that are not
\* online and were seen more than timeout ago; every other entry stays, in
\* order and with all its fields, and self_ and the counters stay as they are.
CleanupContract ==
    \A timeout \in Timeouts :
        LET c == cleanup_expired(core, timeout, now)
            gone(n) == n.status # "online" /\ now - n.seen_time > timeout
        IN /\ c.nodes_ = SelectSeq(core.nodes_, LAMBDA n : ~gone(n))
           /\ \A i \in 1..Len(core.nodes_) :
                 (core.nodes_[i].status = "online"
                    \/ now - core.nodes_[i].seen_time <= timeout)
                 => \E j \in 1..Len(c.nodes_) : c.nodes_[j] = core.nodes_[i]
           /\ \A j \in 1..Len(c.nodes_) : ~gone(c.nodes_[j])
           /\ c.self_ = core.self_
           /\ c.sent_messages_ = core.sent_messages_
           /\ c.received_messages_ = core.received_messages_

\* cleanup_expired(0) has just removed an entry that was listed before and
\* kept an entry that is not online and was seen at this very time, that is,
\* exactly timeout ago.
CleanupContractWitness ==
    /\ op = "cleanup_expired"
    /\ \E id \in NodeIds : held[id] # <<>> /\ ~Listed(core, id)
    /\ \E i \in 1..Len(core.nodes_) :
          /\ core.nodes_[i].status # "online"
          /\ core.nodes_[i].seen_time = now

\* C23. A peer is removed by expiry only: a call of tick, tick_full_broadcast,
\* handle_message, meet, join or leave leaves every listed id listed; an id
\* leaves the list through cleanup_expired or reset only.
RemovedOnlyByExpiry ==
    [][(calls' = calls + 1 /\ op' \notin {"cleanup_expired", "reset"})
          => \A id \in NodeIds : Listed(core, id) => Listed(core', id)]_vars

\* A tick has just returned with an entry that has been failed since before
\* the tick, and is still listed.
RemovedOnlyByExpiryWitness ==
    /\ op = "tick"
    /\ events = <<>>
    /\ \E i \in 1..Len(core.nodes_) : core.nodes_[i].status = "failed"

\* C24. reset(): afterwards nodes_ is empty, self_.heartbeat is 1,
\* self_.version is 0 and both message counters are 0; the id, config_epoch
\* and status of self_ are as before, and no SEND or EVENT is issued.
ResetContract ==
    [][Called("reset") =>
          /\ core'.nodes_ = <<>>
          /\ core'.self_.heartbeat = 1
          /\ core'.self_.version = 0
          /\ core'.sent_messages_ = 0
          /\ core'.received_messages_ = 0
          /\ core'.self_.id = core.self_.id
          /\ core'.self_.config_epoch = core.self_.config_epoch
          /\ core'.self_.status = core.self_.status
          /\ core'.self_.status = "online"
          /\ core'.event_fn_ = core.event_fn_
          /\ sends' = <<>>
          /\ events' = <<>>]_vars

\* reset has just returned on an engine that had listed a peer.
ResetContractWitness ==
    /\ op = "reset"
    /\ core.nodes_ = <<>>
    /\ \E id \in NodeIds : held[id] # <<>>

\* --------------------------------------------------------------------
\* Statistics
\* --------------------------------------------------------------------

\* C25. Statistics match the history: both counters of get_stats() are 0
\* after construction and after reset; every other call adds the number of its
\* SEND invocations to sent_messages, and adds 1 to received_messages when it
\* is a handle_message (discarded or not) and 0 otherwise; known_nodes is
\* size() throughout.
StatsMatchHistory ==
    /\ get_stats(core).sent_messages = 0
    /\ get_stats(core).received_messages = 0
    /\ [][/\ get_stats(core').known_nodes = size(core')
          /\ Called("reset") =>
                /\ get_stats(core').sent_messages = 0
                /\ get_stats(core').received_messages = 0
          /\ (calls' = calls + 1 /\ op' # "reset") =>
                /\ get_stats(core').sent_messages =
                      get_stats(core).sent_messages + Len(sends')
                /\ get_stats(core').received_messages =
                      get_stats(core).received_messages
                         + (IF op' = "handle_message" THEN 1 ELSE 0)
          /\ calls' = calls =>
                /\ get_stats(core').sent_messages = get_stats(core).sent_messages
                /\ get_stats(core').received_messages =
                      get_stats(core).received_messages]_vars

\* handle_message has just counted the second message received, to which it
\* answered nothing, one SEND having been made by the calls before it.
StatsMatchHistoryWitness ==
    /\ op = "handle_message"
    /\ sends = <<>>
    /\ events = <<>>
    /\ get_stats(core) = [known_nodes |-> 1, sent_messages |-> 1,
                          received_messages |-> 2]

\* --------------------------------------------------------------------
\* tick: the empty table, and the order of its steps
\* --------------------------------------------------------------------

\* C26. tick on an empty peer table issues no SEND and no EVENT and advances
\* self_.heartbeat by exactly 1 and self_.version by exactly 1.
EmptyTick ==
    core.nodes_ = <<>> =>
        \A d \in tick_draws(core) :
            LET r == tick(core, now, d)
            IN /\ r.sends = <<>>
               /\ r.events = <<>>
               /\ r.core.nodes_ = <<>>
               /\ r.core.self_.heartbeat = core.self_.heartbeat + 1
               /\ r.core.self_.version = core.self_.version + 1
               /\ r.core.sent_messages_ = core.sent_messages_

\* Two ticks on an empty table have just returned: nothing was sent and the
\* heartbeat and the version are two above what the constructor left.
EmptyTickWitness ==
    /\ op = "tick"
    /\ calls = 2
    /\ core.nodes_ = <<>>
    /\ sends = <<>>
    /\ events = <<>>
    /\ core.self_.heartbeat = Engine(SelfId, TRUE).self_.heartbeat + 2
    /\ core.self_.version = Engine(SelfId, TRUE).self_.version + 2
    /\ \A id \in NodeIds : held[id] = <<>>

\* C27. Ordering inside one tick: every ping of the tick carries as its
\* timestamp, and as the heartbeat of its first entry (the self view), the
\* heartbeat self_ had before the call; self_.heartbeat still has that value
\* while each SEND runs and is one more afterwards; and every SEND of the tick
\* comes before every EVENT of its failure detection.
TickOrder ==
    \A d \in tick_draws(core) :
        LET r == tick(core, now, d)
            cb == tick_callbacks(core, now, d)
        IN /\ Len(cb) = Len(r.sends) + Len(r.events)
           /\ \A i \in 1..Len(cb) :
                 cb[i].call = "SEND" =>
                    /\ cb[i].msg.type = "ping"
                    /\ cb[i].msg.timestamp = core.self_.heartbeat
                    /\ cb[i].msg.entries[1].id = core.self_.id
                    /\ cb[i].msg.entries[1].heartbeat = core.self_.heartbeat
                    /\ cb[i].heartbeat = core.self_.heartbeat
           /\ r.core.self_.heartbeat = core.self_.heartbeat + 1
           /\ \A i, j \in 1..Len(cb) :
                 (cb[i].call = "SEND" /\ cb[j].call = "EVENT") => i < j

\* A tick has just returned that sent a ping, stamped with the heartbeat of
\* before the call, and then found a peer overdue.
TickOrderWitness ==
    /\ op = "tick"
    /\ sends # <<>>
    /\ events # <<>>
    /\ sends[1].msg.timestamp + 1 = core.self_.heartbeat
    /\ sends[1].msg.entries[1].heartbeat + 1 = core.self_.heartbeat

\* --------------------------------------------------------------------
\* Convergence runs: A meets B, B meets C, then every engine ticks
\* --------------------------------------------------------------------

\* The meets of the scenario: the engine that calls meet, and the node it
\* meets.
ConvMeets == {<<"A", "B">>, <<"B", "C">>}

\* Both meets of the scenario have been called.
ConvMeetsDone ==
    \A m \in ConvMeets : Listed(net.cluster[m[1]], m[2])

\* The driver of one node of the scenario calls meet, once.
ConvMeet ==
    /\ \E m \in ConvMeets :
          /\ ~Listed(net.cluster[m[1]], m[2])
          /\ NetReturns(m[1], "meet", NoMessage,
                        meet(net.cluster[m[1]], node_view(m[2]), now), net.wire)
    /\ calls' = calls + 1

\* The timer of node e fires, after the meets and once the transport has
\* delivered what was sent before (the tick period is long against the
\* delivery of a message); MaxConvTicks bounds the ticks of each engine.
ConvTick(e) ==
    /\ net.cluster[e].self_.heartbeat
          < Engine(e, TRUE).self_.heartbeat + MaxConvTicks
    /\ ConvMeetsDone
    /\ net.wire = {}
    /\ calls' = calls + 1
    /\ \E d \in tick_draws(net.cluster[e]) :
          NetReturns(e, "tick", NoMessage, tick(net.cluster[e], now, d), net.wire)

ConvTicks == \E e \in NodeIds : ConvTick(e)

ConvNext ==
    \/ ConvMeet
    \/ ConvTicks
    \/ NetDeliver

\* A delivery is possible exactly when a message is on the wire:
\* handle_message accepts every message and the message delivered leaves the
\* wire, so this is ENABLED <<NetDeliver>>_vars.
DeliverEnabled == net.wire # {}

\* Every driver makes its call, every timer fires and the transport delivers
\* every message handed to SEND (weak fairness of NetDeliver, with its
\* enabling condition written out).
ConvFairness ==
    /\ WF_vars(ConvMeet)
    /\ \A e \in NodeIds : WF_vars(ConvTick(e))
    /\ (<>[]DeliverEnabled => []<><<NetDeliver>>_vars)

SpecConverge == Init /\ [][ConvNext]_vars /\ ConvFairness

\* Every engine lists both other engines.
Converged ==
    \A e \in NodeIds : \A t \in NodeIds \ {e} : Listed(net.cluster[e], t)

PureInit ==
    /\ Constructed
    /\ \E a \in OrderViews, b \in OrderViews, m \in CodecMessages :
          pure = Arguments(a, b, m)

\* can_replace and newer_than are applied to the two views, both ways round.
ApplyOrder ==
    /\ pure.applied = "none"
    /\ pure' = [pure EXCEPT !.applied = "order",
                            !.can_ab = can_replace(pure.a, pure.b),
                            !.can_ba = can_replace(pure.b, pure.a),
                            !.newer_ab = newer_than(pure.a, pure.b),
                            !.newer_ba = newer_than(pure.b, pure.a)]
    /\ UNCHANGED <<calls, core, now, op, events, changes, sends, held, watch, net,
                   threads, talk>>

\* The message is serialized and the text is deserialized.
ApplyCodec ==
    /\ pure.applied = "none"
    /\ LET data == serialize(pure.m)
           r == deserialize(data)
       IN pure' = [pure EXCEPT !.applied = "codec", !.data = data,
                               !.ok = r.ok, !.back = r.msg]
    /\ UNCHANGED <<calls, core, now, op, events, changes, sends, held, watch, net,
                   threads, talk>>

PureNext ==
    \/ ApplyOrder
    \/ ApplyCodec

SpecPure == PureInit /\ [][PureNext]_vars

\* C29. The ordering predicates: can_replace(A, B) holds iff A's config_epoch
\* is higher, or the epochs are equal and A's heartbeat is higher;
\* newer_than(A, B) holds iff A's heartbeat is higher, or the heartbeats are
\* equal and A's config_epoch is higher; neither predicate holds both ways
\* round, and neither holds when the two pairs are equal.
OrderPredicates ==
    pure.applied = "order" =>
        LET a == pure.a
            b == pure.b
        IN /\ pure.can_ab <=> (\/ a.config_epoch > b.config_epoch
                               \/ (/\ a.config_epoch = b.config_epoch
                                   /\ a.heartbeat > b.heartbeat))
           /\ pure.newer_ab <=> (\/ a.heartbeat > b.heartbeat
                                 \/ (/\ a.heartbeat = b.heartbeat
                                     /\ a.config_epoch > b.config_epoch))
           /\ ~(pure.can_ab /\ pure.can_ba)
           /\ ~(pure.newer_ab /\ pure.newer_ba)
           /\ Pair(a) = Pair(b) =>
                 /\ ~pure.can_ab /\ ~pure.can_ba
                 /\ ~pure.newer_ab /\ ~pure.newer_ba
           /\ Pair(a) # Pair(b) =>
                 /\ pure.can_ab \/ pure.can_ba
                 /\ pure.newer_ab \/ pure.newer_ba

\* The predicates were applied to two views they order in opposite ways: the
\* first has the higher epoch, the second the higher heartbeat.
OrderPredicatesWitness ==
    /\ pure.applied = "order"
    /\ pure.a.config_epoch > pure.b.config_epoch
    /\ pure.a.heartbeat < pure.b.heartbeat
    /\ pure.can_ab /\ ~pure.can_ba
    /\ pure.newer_ba /\ ~pure.newer_ab

\* C30. Codec round trip: deserialize(serialize(m)) succeeds and yields a
\* message equal to m, every field of every entry compared (seen_time,
\* suspicion_count and last_suspected included).
CodecRoundTrip ==
    pure.applied = "codec" => (pure.ok /\ pure.back = pure.m)

\* --------------------------------------------------------------------
\* handle_message: the order of its EVENTs
\* --------------------------------------------------------------------

\* The sender's view as "Update sender's status" finds it: the entry located
\* in nodes_, or the one just inserted from the entries of a meet or join.
\* The result of that update, for a message that is not discarded and whose
\* sender is located.
SenderStep(c, msg, recv_time) ==
    LET i0 == find_if(c.nodes_, msg.sender)
        k == sender_entry(msg)
        u0 == IF i0 = 0 /\ admits(msg) /\ k # 0
              THEN update_node(c.nodes_, c.event_fn_, msg.entries[k], recv_time)
              ELSE [nodes |-> c.nodes_, events |-> <<>>, changes |-> <<>>,
                    idx |-> i0]
    IN IF u0.idx = 0 THEN [first |-> 0, events |-> <<>>]
       ELSE [first |-> Len(u0.events),
             events |-> sender_update(u0.nodes[u0.idx], c.event_fn_, msg,
                                      recv_time).events]

\* C31. Event order inside one handle_message: the EVENTs of the sender's own
\* transition (joining to online, or to failed on a leave) are delivered
\* before every EVENT the merge of the entries list causes; in particular
\* every EVENT about another id than the sender's comes after them.
SenderEventFirst ==
    calls < MaxCalls =>
        \A msg \in Messages :
            LET r == handle_message_table(core, msg, now)
                st == SenderStep(core, msg, now)
                n == Len(st.events)
            IN n > 0 =>
                  /\ Len(r.events) >= st.first + n
                  /\ SubSeq(r.events, st.first + 1, st.first + n) = st.events
                  /\ \A j \in 1..Len(r.events) :
                        r.events[j].node.id # msg.sender => j > st.first + n

\* handle_message has just delivered the EVENT of its sender going from
\* joining to online, and after it the EVENT of a peer first seen in the
\* entries of the same message.
SenderEventFirstWitness ==
    /\ op = "handle_message"
    /\ Len(events) = 2
    /\ events[1].old_status = "joining"
    /\ events[1].node.status = "online"
    /\ events[2].old_status = "unknown"
    /\ events[2].node.id # events[1].node.id

\* --------------------------------------------------------------------
\* tick: the status changes of the failure detection
\* --------------------------------------------------------------------

\* C32. The only status changes a tick makes are online to suspect and suspect
\* to failed, one step at most for each entry: an online entry becomes suspect
\* iff now - seen_time >= failure_timeout_ and is never failed by the same
\* tick, and an entry that is joining or failed is left as it is, however
\* long ago it was seen; no entry is added or removed.
TickTransitions ==
    [][Called("tick") =>
          /\ Len(core'.nodes_) = Len(core.nodes_)
          /\ \A i \in 1..Len(core.nodes_) :
                LET old == core.nodes_[i]
                    new == core'.nodes_[i]
                IN /\ new.id = old.id
                   /\ new.status # old.status =>
                         <<old.status, new.status>> \in
                            {<<"online", "suspect">>, <<"suspect", "failed">>}
                   /\ old.status = "online" =>
                         (new.status = "suspect"
                            <=> now - old.seen_time >= FailureTimeout)
                   /\ old.status \in {"joining", "failed"} => new = old]_vars

\* A tick has just declared B failed and left C, joining and seen at least
\* as long ago as failure_timeout_, as it was.
TickTransitionsWitness ==
    /\ op = "tick"
    /\ events # <<>>
    /\ Listed(core, "B") /\ Entry(core, "B").status = "failed"
    /\ Listed(core, "C") /\ Entry(core, "C").status = "joining"
    /\ now - Entry(core, "C").seen_time >= FailureTimeout

\* --------------------------------------------------------------------
\* Fanout of tick and of the reply
\* --------------------------------------------------------------------

\* The views of a sequence have pairwise different ids.
DistinctIds(views) ==
    \A i, j \in 1..Len(views) : i # j => views[i].id # views[j].id

\* A message built by tick or as a reply: the self view first, then at most
\* sync_nodes_ views with pairwise different ids, none with the target's id.
SampleCarried(c, send) ==
    LET es == send.msg.entries
    IN /\ Len(es) >= 1
       /\ es[1].id = c.self_.id
       /\ Len(es) - 1 <= SyncNodes
       /\ DistinctIds(Tail(es))
       /\ \A i \in 2..Len(es) : es[i].id # send.target.id

\* C33. Sample bound and fanout: each tick pings exactly
\* min(gossip_nodes_, size()) entries with pairwise different ids, whatever
\* their status; every ping and every pong carries the self view and at most
\* sync_nodes_ further views with pairwise different ids, none of them with
\* the id of the target of the message.
SampleBound ==
    /\ \A d \in tick_draws(core) :
          LET r == tick(core, now, d)
          IN /\ Len(r.sends) = Min(GossipNodes, size(core))
             /\ DistinctIds([i \in 1..Len(r.sends) |-> r.sends[i].target])
             /\ \A i \in 1..Len(r.sends) : SampleCarried(core, r.sends[i])
    /\ op = "handle_message" =>
          \A i \in 1..Len(sends) : SampleCarried(core, sends[i])

\* --------------------------------------------------------------------
\* update_node: the first observation of an id
\* --------------------------------------------------------------------

\* C34, as stated: an entry inserted for an incoming view is joining unless
\* the view asserted online (then online), so it is never suspect, failed or
\* unknown; its seen_time is recv_time and exactly one EVENT (new, unknown) is
\* delivered.
FirstObservationJoining ==
    \A v \in RemoteViews :
        ~Listed(core, v.id) =>
            LET r == update_node(core.nodes_, core.event_fn_, v, now)
                new == r.nodes[Len(r.nodes)]
            IN /\ Len(r.nodes) = Len(core.nodes_) + 1
               /\ new.id = v.id
               /\ new.status = IF v.status = "online" THEN "online" ELSE "joining"
               /\ new.seen_time = now
               /\ r.events = <<Event(new, "unknown")>>

\* C34, amended: an entry inserted for an incoming view is a copy of the view
\* with the status the view carries, unknown alone being stored as joining (so
\* it is never unknown, and is suspect or failed when the view says so); its
\* seen_time is recv_time, it is appended behind the entries held before, which
\* are left as they are, and exactly one EVENT (new, unknown) is delivered.
FirstObservationCopies ==
    \A v \in RemoteViews :
        ~Listed(core, v.id) =>
            LET r == update_node(core.nodes_, core.event_fn_, v, now)
                new == r.nodes[Len(r.nodes)]
            IN /\ Len(r.nodes) = Len(core.nodes_) + 1
               /\ SubSeq(r.nodes, 1, Len(core.nodes_)) = core.nodes_
               /\ new = [v EXCEPT !.seen_time = now,
                                  !.status = IF v.status = "unknown"
                                             THEN "joining" ELSE v.status]
               /\ new.status # "unknown"
               /\ r.idx = Len(r.nodes)
               /\ r.events = <<Event(new, "unknown")>>

\* handle_message has just inserted a peer it had never listed from an entry
\* that reported it failed, and delivered EVENT (peer as failed, unknown).
FirstObservationCopiesWitness ==
    /\ op = "handle_message"
    /\ \E i \in 1..Len(events) :
          /\ events[i].old_status = "unknown"
          /\ events[i].node.status = "failed"
          /\ events[i].node.seen_time = now
          /\ Listed(core, events[i].node.id)
          /\ Entry(core, events[i].node.id).status = "failed"

\* --------------------------------------------------------------------
\* Threaded runs: the driver of examples/simple_cluster.cpp
\* --------------------------------------------------------------------

\* The application thread enters meet or tick of one engine. An entry point
\* takes no lock, so nothing keeps the thread out.
MainEnter ==
    /\ calls < MaxThreadCalls
    /\ threads.main.name = "idle"
    /\ calls' = calls + 1
    /\ \E e \in NodeIds :
          \/ \E t \in NodeIds \ {e} :
                threads' = [threads EXCEPT
                              !.main = [engine |-> e, name |-> "meet", target |-> t,
                                        seen |-> net.cluster[e]]]
          \/ threads' = [threads EXCEPT
                           !.main = [engine |-> e, name |-> "tick", target |-> "none",
                                     seen |-> net.cluster[e]]]
    /\ UNCHANGED <<core, now, op, events, changes, sends, held, watch, net, pure,
                   talk>>

\* The SENDs of a call that returns: send_fn starts one detached thread for
\* each message, which sleeps before it calls handle_message on the target.
ThreadReturns(e, name, msg, r) ==
    /\ net' = [cluster |-> [net.cluster EXCEPT ![e] = r.core],
               wire |-> net.wire \cup {r.sends[i] : i \in 1..Len(r.sends)},
               by |-> e,
               got |-> msg]
    /\ op' = name
    /\ events' = r.events
    /\ changes' = r.changes
    /\ sends' = r.sends
    /\ UNCHANGED <<calls, core, now, held, watch, pure, talk>>

\* The engine a returning call has worked on. Calls that overlap on one
\* engine race on its members: the call's reads are those of the engine as it
\* is now that the call returns, or those of the engine as the call found
\* it, the writes other threads made meanwhile being lost. (Without an
\* overlap the two are the same engine.)
Raced(e, seen) == {net.cluster[e], seen}

\* The application thread returns from the entry point it is inside.
MainLeave ==
    /\ threads.main.name # "idle"
    /\ threads' = [threads EXCEPT !.main = IdleThread]
    /\ LET e == threads.main.engine IN
       \E c \in Raced(e, threads.main.seen) :
          \/ /\ threads.main.name = "meet"
             /\ ThreadReturns(e, "meet", NoMessage,
                   meet(c, net.cluster[threads.main.target].self_, now))
          \/ /\ threads.main.name = "tick"
             /\ \E d \in tick_draws(c) :
                   ThreadReturns(e, "tick", NoMessage, tick(c, now, d))

\* A detached thread wakes up and enters handle_message of its target.
HandlerEnter ==
    /\ \E s \in net.wire :
          /\ threads' = [threads EXCEPT
                           !.handlers = @ \cup {[msg |-> s.msg, engine |-> s.target.id,
                                                  seen |-> net.cluster[s.target.id]]}]
          /\ net' = [net EXCEPT !.wire = @ \ {s}]
    /\ UNCHANGED <<calls, core, now, op, events, changes, sends, held, watch, pure,
                   talk>>

\* A detached thread returns from handle_message.
HandlerLeave ==
    /\ \E h \in threads.handlers :
          /\ threads' = [threads EXCEPT !.handlers = @ \ {h}]
          /\ \E c \in Raced(h.engine, h.seen) :
                \E r \in handle_message(c, h.msg, now) :
                   ThreadReturns(h.engine, "handle_message", h.msg, r)

ThreadsNext ==
    \/ MainEnter
    \/ MainLeave
    \/ HandlerEnter
    \/ HandlerLeave

SpecThreads == Init /\ [][ThreadsNext]_vars

\* The number of threads inside an entry point of engine e.
Inside(e) ==
    Cardinality({h \in threads.handlers : h.engine = e})
       + (IF threads.main.name # "idle" /\ threads.main.engine = e THEN 1 ELSE 0)

\* C35. Serialized driving: no two entry points of one engine ever execute
\* at the same time; a handle_message called by a per-message thread never
\* overlaps with a tick or meet of the application thread, nor with another
\* handle_message, on the same engine.
SerializedDriving == \A e \in NodeIds : Inside(e) <= 1

\* --------------------------------------------------------------------
\* Closed cluster runs: every call of every engine, and a transport that
\* delivers to the target only, in any order, and may deliver twice
\* --------------------------------------------------------------------

\* The driver of node e calls meet or join with the self view of another node.
ClosedIntroduce ==
    /\ calls < MaxClosedCalls
    /\ calls' = calls + 1
    /\ \E e \in NodeIds :
          \E t \in NodeIds \ {e} :
             \/ NetReturns(e, "meet", NoMessage,
                           meet(net.cluster[e], net.cluster[t].self_, now), net.wire)
             \/ NetReturns(e, "join", NoMessage,
                           join(net.cluster[e], net.cluster[t].self_, now), net.wire)

\* The driver of node e calls leave.
ClosedLeave ==
    /\ calls < MaxClosedCalls
    /\ calls' = calls + 1
    /\ \E e \in NodeIds :
          \E id \in NodeIds :
             NetReturns(e, "leave", NoMessage, leave(net.cluster[e], id), net.wire)

\* The timer of node e fires.
ClosedTick ==
    /\ calls < MaxClosedCalls
    /\ calls' = calls + 1
    /\ \E e \in NodeIds :
          \E d \in tick_draws(net.cluster[e]) :
             NetReturns(e, "tick", NoMessage, tick(net.cluster[e], now, d), net.wire)

\* The transport delivers a message to its target and keeps a copy, which it
\* will deliver once more.
ClosedDuplicate ==
    /\ calls < MaxClosedCalls
    /\ calls' = calls + 1
    /\ \E s \in net.wire :
          \E r \in handle_message(net.cluster[s.target.id], s.msg, now) :
             NetReturns(s.target.id, "handle_message", s.msg, r, net.wire)

ClosedNext ==
    \/ ClosedIntroduce
    \/ ClosedLeave
    \/ ClosedTick
    \/ NetDeliver
    \/ ClosedDuplicate

SpecClosed == Init /\ [][ClosedNext]_vars

\* C36. Closed-cluster self-exclusion: no message an engine hands to SEND
\* holds an entry with the id of the target of that SEND, and no engine of
\* the cluster lists its own id, whatever the order of the ticks, meets,
\* joins, leaves and deliveries (repeated deliveries included).
ClosedSelfExclusion ==
    /\ \A s \in net.wire :
          /\ s.msg.sender # s.target.id
          /\ \A i \in 1..Len(s.msg.entries) : s.msg.entries[i].id # s.target.id
    /\ \A e \in NodeIds : ~Listed(net.cluster[e], e)

\* An engine has just handled a ping that carried, besides the sender's view,
\* the view of a third node, which it lists now.
ClosedSelfExclusionWitness ==
    /\ op = "handle_message"
    /\ net.got.type = "ping"
    /\ Len(net.got.entries) = 2
    /\ net.got.entries[2].id \notin {net.by, net.got.sender}
    /\ Listed(net.cluster[net.by], net.got.entries[2].id)

\* --------------------------------------------------------------------
\* Closed cluster runs in which the transport delivers every message
\* --------------------------------------------------------------------

\* The transport delivers every message handed to SEND: weak fairness of
\* NetDeliver, with its enabling condition written out.
DrainFairness == <>[]DeliverEnabled => []<><<NetDeliver>>_vars

SpecDrain == Init /\ [][ClosedNext]_vars /\ DrainFairness

\* What a handle_message that has just returned may have handed to SEND:
\* nothing for a pong or a leave, and otherwise at most one message, a pong
\* for the sender of the message handled.
ReplyRule ==
    op' = "handle_message" =>
        /\ Len(sends') <= 1
        /\ net'.got.type \notin {"ping", "meet", "join"} => sends' = <<>>
        /\ \A i \in 1..Len(sends') :
              /\ sends'[i].msg.type = "pong"
              /\ sends'[i].target.id = net'.got.sender

\* C37. No reply storm: handle_message answers only a ping, a meet or a
\* join, with at most one pong, and never a pong; so once the drivers of a
\* closed cluster make no further call, the messages in flight run out and
\* none is in flight ever after.
NoReplyStorm == [][ReplyRule]_vars /\ <>[](net.wire = {})

\* A pong has just been handled, in answer to a message of an earlier call,
\* and nothing is in flight any more.
NoReplyStormWitness ==
    /\ op = "handle_message"
    /\ net.got.type = "pong"
    /\ sends = <<>>
    /\ net.wire = {}
    /\ calls >= 1

\* C38. Announcing the departure of another node does not fail the
\* announcer: when an engine handles a leave message, no peer other than the
\* one whose departure the message announces goes to failed, and the entry of
\* an online sender that announced another node's departure keeps its status.
LeaveSparesAnnouncer ==
    [][(op' = "handle_message" /\ net'.got.type = "leave") =>
          LET x == net'.got.entries[1].id
              before == net.cluster[net'.by]
              after == net'.cluster[net'.by]
          IN \A id \in NodeIds \ {x} :
                (Listed(before, id) /\ Entry(before, id).status # "failed")
                   => Entry(after, id).status # "failed"]_vars

\* C39. Nothing is learned from a sender that cannot be located: handling a
\* meet or join whose sender is not in the peer table and is not among the
\* entries of the message leaves the peer table as it was and issues no SEND
\* and no EVENT; only received_messages_ changes.
UnlocatedSenderLearnsNothing ==
    calls < MaxCalls =>
        \A msg \in Messages :
            (/\ msg.type \in {"meet", "join"}
             /\ ~Listed(core, msg.sender)
             /\ \A i \in 1..Len(msg.entries) : msg.entries[i].id # msg.sender)
                => \A r \in handle_message(core, msg, now) :
                      /\ r.core = [core EXCEPT !.received_messages_ = @ + 1]
                      /\ r.sends = <<>>
                      /\ r.events = <<>>

\* A meet or join whose sender is neither in the table of c nor among the
\* entries of the message: the sender stays null up to the end of the call.
Unlocated(c, msg) ==
    /\ msg.type \in {"meet", "join"}
    /\ ~Listed(c, msg.sender)
    /\ \A i \in 1..Len(msg.entries) : msg.entries[i].id # msg.sender

\* C39, as the code has it: handling a meet or join whose sender is not in
\* the peer table and not among the entries of the message increments
\* received_messages_, issues no SEND, does not insert the sender, and merges
\* every entry of the message into the table by update_node, in order,
\* delivering the EVENTs of that merge and no other; the table is unchanged
\* only when no entry is inserted or replaced.
UnlocatedSenderMergesEntries ==
    calls < MaxCalls =>
        \A msg \in Messages :
            Unlocated(core, msg) =>
                LET m == merge_entries(core.nodes_, core.event_fn_, msg.entries, now)
                IN \A r \in handle_message(core, msg, now) :
                      /\ r.core = [core EXCEPT !.received_messages_ = @ + 1,
                                               !.nodes_ = m.nodes]
                      /\ r.sends = <<>>
                      /\ r.events = m.events
                      /\ ~Listed(r.core, msg.sender)
                      /\ \A i \in 1..Len(msg.entries) :
                            Listed(r.core, msg.entries[i].id)

\* handle_message has just inserted C, and delivered its EVENT, from the
\* entries of a message of B, which the table does not hold, and issued no
\* SEND.
UnlocatedSenderMergesEntriesWitness ==
    /\ op = "handle_message"
    /\ sends = <<>>
    /\ Len(events) = 1
    /\ events[1].node.id = "C"
    /\ events[1].old_status = "unknown"
    /\ Listed(core, "C")
    /\ ~Listed(core, "B")

\* --------------------------------------------------------------------
\* Talking-peer runs: one engine, the messages of B, a message of C that
\* carries its view of B, ticks and the clock
\* --------------------------------------------------------------------

\* The view of B an engine holds that has not heard of B for three due
\* ticks after B's heartbeat 2: the tick of that engine left it suspect with
\* suspicion_count at the threshold.
SuspectedElsewhere ==
    [View("B", <<0, 2>>, "suspect") EXCEPT !.suspicion_count = SuspicionThreshold]

\* The messages a talking-peer run delivers: the messages of B of an
\* escalation run, and a meet of C whose entries carry, as handed to SEND, the
\* self view of C and the view of B in the table of C.
TalkMessages ==
    DetectMessages
    \cup {Message("C", "meet", 1, <<View("C", <<0, 1>>, "online"), SuspectedElsewhere>>)}

\* The effect of a call of a talking-peer run with result r.
TalkReturns(name, r, t) ==
    /\ calls < MaxTalkCalls
    /\ calls' = calls + 1
    /\ core' = r.core
    /\ op' = name
    /\ events' = r.events
    /\ changes' = r.changes
    /\ sends' = r.sends
    /\ talk' = t
    /\ UNCHANGED <<now, held, watch, net, pure, threads>>

\* A message is handled; B has been heard when the message is one of B and
\* the table holds B as suspect.
TalkHandleMessage ==
    /\ calls < MaxTalkCalls
    /\ \E msg \in TalkMessages :
          \E r \in handle_message(core, msg, now) :
             TalkReturns("handle_message", r,
                [talk EXCEPT !.heard = @ \/ (/\ msg.sender = "B"
                                             /\ Listed(core, "B")
                                             /\ Entry(core, "B").status = "suspect")])

\* tick is called. When it raises the suspicion_count of a suspect B, B must
\* have been heard since the tick that raised it last.
TalkTick ==
    /\ calls < MaxTalkCalls
    /\ \E d \in tick_draws(core) :
          LET r == tick(core, now, d)
              raised == /\ Listed(core, "B")
                        /\ Entry(r.core, "B").suspicion_count
                              = Entry(core, "B").suspicion_count + 1
          IN TalkReturns("tick", r,
                IF ~raised THEN talk
                ELSE IF Entry(core, "B").status = "suspect"
                THEN [heard |-> FALSE, kept |-> talk.kept /\ talk.heard]
                ELSE [talk EXCEPT !.heard = FALSE])

TalkNext ==
    \/ TalkHandleMessage
    \/ TalkTick
    \/ DetectClock

SpecTalk == Init /\ [][TalkNext]_vars

\* C40. A suspect peer that keeps talking is never declared failed: as long
\* as a message of B, held suspect, was handled between every two consecutive
\* ticks that raised the suspicion_count of B, that count is at most the
\* threshold 3 and no tick has moved B to failed.
TalkingPeerNeverFailed ==
    (talk.kept /\ Listed(core, "B")) =>
        /\ Entry(core, "B").suspicion_count <= SuspicionThreshold
        /\ ~(/\ op = "tick"
             /\ \E i \in 1..Len(changes) : changes[i] = Change("B", "suspect", "failed"))

====
